---- MODULE Spec2Model ----
(***************************************************************************)
(* The SQS listener loops of tibber_aws: SqsListener (sqs.py) and          *)
(* AwsQueueListener (aws_queue_listener.py).  One behaviour is one call of *)
(* run() on an asyncio event loop: the loop coroutine and the              *)
(* process_message tasks it spawns are interleaved at their awaits.        *)
(* Further specifications cover the listeners' construction, AwsBase's     *)
(* client initialisation, queue provisioning and the paging of             *)
(* Logs.get_structlog_events; each leaves the other components absent.     *)
(***************************************************************************)
EXTENDS Integers, Sequences, FiniteSets, TLC

(* ------------------------------ bounds -------------------------------- *)
\* Coroutines that call init_client_if_required on one AwsBase instance.
MaxCallers == 4
\* Coroutines that call close on one AwsBase instance.
MaxClosers == 2
\* max_recursion of get_structlog_events is drawn from 0..MaxRecursion.
MaxRecursion == 3
\* Events in one filter_log_events response: 0..MaxPage.
MaxPage == 1
\* Records a queue of mixed content hands out during one run.
MaxRecords == 2
\* Records a queue of well-formed first deliveries hands out during one run.
MaxLoad == 4
\* max_num_msgs is drawn from 1..MaxNumMsgs.
MaxNumMsgs == 2
\* max_retry_count is drawn from 0..MaxRetry; receive counts from 1..MaxRetry+1.
MaxRetry == 1
\* Pages of a log stream that answers by nextToken: 1..MaxPages.
MaxPages == 3
\* retries of invoke() is drawn from -1..MaxRetries.
MaxRetries == 3
\* retry of S3Bucket.store_data is drawn from -1..MaxStoreRetry.
MaxStoreRetry == 2
\* Last-modified times and if_unmodified_since are drawn from 1..MaxTime,
\* counted from the year 1900.
MaxTime == 3
\* Calls of receive_message and send_message made on one Queue.
MaxQueueCalls == 3
\* Times one record body is decoded.
MaxDecodes == 2
\* Messages a redelivering queue holds.
MaxMessages == 2
\* Deliveries of one message a redelivering queue makes during one run.
MaxDeliveries == 4

(* --------------------------- Python values ---------------------------- *)
PyNone == [t |-> "none"]
\* A str that is not a JSON document.
Raw(s) == [t |-> "str", raw |-> s]
\* json.dumps(v): the str that is the JSON text of v.
Dumps(v) == [t |-> "str", json |-> v]

\* json.loads(x): the document of a JSON text; TypeError on None,
\* JSONDecodeError on any other str.
JsonLoads(x) ==
    IF x.t # "str" THEN [ok |-> FALSE, err |-> "TypeError"]
    ELSE IF "json" \in DOMAIN x THEN [ok |-> TRUE, v |-> x.json]
    ELSE [ok |-> FALSE, err |-> "JSONDecodeError"]

\* dict.get(k): the value, or None when the key is absent.
Get(d, k) == IF k \in DOMAIN d THEN d[k] ELSE PyNone

Digits == <<"1", "2", "3", "4", "5">>
\* int(s) of an attribute value: a decimal numeral, or ValueError.
ParseInt(s) ==
    IF \E i \in DOMAIN Digits : Digits[i] = s
    THEN [ok |-> TRUE, v |-> CHOOSE i \in DOMAIN Digits : Digits[i] = s]
    ELSE [ok |-> FALSE, err |-> "ValueError"]

(* ------------------------- what the queue holds ----------------------- *)
InnerDoc == [Data |-> Raw("Hello World")]

Notification(subject, id, message) ==
    [Type |-> Raw("Notification"), MessageId |-> Raw(id),
     Subject |-> Raw(subject), Message |-> message]

\* The bodies the transport may deliver: SNS notifications with a handled
\* subject ("A"), an unhandled one ("X"), no Subject key, a Message that is
\* plain text, and a body that is not JSON at all.
Bodies ==
    { Dumps(Notification("A", "m1", Dumps(InnerDoc))),
      Dumps(Notification("X", "m2", Dumps(InnerDoc))),
      Dumps([Type |-> Raw("Notification"), MessageId |-> Raw("m3"),
             Message |-> Dumps(InnerDoc)]),
      Dumps(Notification("A", "m4", Raw("Hello World"))),
      Raw("<html>") }

\* The Attributes of a delivered record: the receive count as SQS sends it
\* (a numeral), a malformed value, or the attribute missing.
AttributeSets ==
    { [ApproximateReceiveCount |-> Digits[n]] : n \in 1..(MaxRetry + 1) }
      \cup { [ApproximateReceiveCount |-> "many"], [SenderId |-> "s"] }

\* A well-formed notification on its first delivery.
WellFormed == Dumps(Notification("A", "m1", Dumps(InnerDoc)))
FirstDelivery == [ApproximateReceiveCount |-> Digits[1]]

\* What the queue may hold when run() starts: "mixed", records of every
\* kind, or "backlog", a longer run of well-formed first deliveries.
QueueContents ==
    [mixed |-> [size |-> MaxRecords, bodies |-> Bodies,
                attrs |-> AttributeSets],
     backlog |-> [size |-> MaxLoad, bodies |-> {WellFormed},
                  attrs |-> {FirstDelivery}]]

\* One record of a receive response.
Record(h, body, attrs) ==
    [MessageId |-> h, ReceiptHandle |-> h, Body |-> body, Attributes |-> attrs]

(* ------------------------------- state -------------------------------- *)
VARIABLES
    listener,        \* the class run() belongs to
    max_num_msgs,    \* self._max_num_msgs
    max_retry_count, \* self._max_retry_count (SqsListener)
    pc,              \* run(): "receive", "wait" (asyncio.wait) or "raised"
    error,           \* the exception that left run() and the response it
                     \* was raised on, or NoError
    queue,           \* what the queue held when run() started (a name
                     \* of QueueContents)
    delivered,       \* how many records the transport has returned so far
    last_request,    \* the last receive call: MaxNumberOfMessages and the
                     \* number of tasks running when it was issued
    tasks,           \* the process_message tasks the event loop holds, by
                     \* receipt handle
    running_tasks,   \* run()'s local list of tasks (receipt handles)
    aws_base,        \* an AwsBase instance and the coroutines calling
                     \* init_client_if_required on it
    provisioning,    \* a call of create_queue_with_subscription or of
                     \* Queue.subscribe_topic, and the queue it works on
    logs,            \* a call of Logs.get_structlog_events
    sqs_queue,       \* the messages of a queue that redelivers what was
                     \* not deleted, by MessageId
    decoding,        \* a record body and the payloads decoded from it
    lambda_call,     \* a call of invoke() (aws_lambda or lambda)
    bucket,          \* an S3 bucket and a call of an S3Bucket method on it
    aws_queue        \* a Queue object and the calls made on it

\* What construction fixes for the whole run.
config == <<listener, max_num_msgs, max_retry_count, queue>>

\* The callers of Lambda, S3 and of a Queue.
clients == <<lambda_call, bucket, aws_queue>>

\* The components a run of the listener has no part in.
elsewhere == <<aws_base, provisioning, logs, sqs_queue, decoding, clients>>

vars == <<config, pc, error, delivered, last_request, tasks, running_tasks,
          elsewhere>>

\* A component that takes no part in the behaviours of a specification.
Absent == [pc |-> "absent"]

\* The subject -> handler mapping given to AwsQueueListener.
handlers == [A |-> "handle_a", B |-> "handle_b"]
\* The single handler given to SqsListener.
message_handler == "message_handler"

NoError == [exc |-> "none", messages |-> <<>>]

\* Tasks dispatched and not yet completed.
InFlight == {h \in DOMAIN tasks : tasks[h].st # "done"}

Init ==
    /\ listener \in {"SqsListener", "AwsQueueListener"}
    /\ max_num_msgs \in 1..MaxNumMsgs
    /\ max_retry_count \in (IF listener = "SqsListener" THEN 0..MaxRetry ELSE {0})
    /\ pc = "receive"
    /\ error = NoError
    /\ queue \in DOMAIN QueueContents
    /\ delivered = 0
    /\ last_request = [MaxNumberOfMessages |-> 0, AttributeNames |-> {}, running |-> 0]
    /\ tasks = <<>>
    /\ running_tasks = {}
    /\ lambda_call = Absent
    /\ bucket = Absent
    /\ aws_queue = Absent
    /\ aws_base = Absent
    /\ provisioning = Absent
    /\ logs = Absent
    /\ sqs_queue = Absent
    /\ decoding = Absent

(* ----------------------- decoding a received record ------------------- *)
\* A faulty variant: a record without a usable receive count is taken as a
\* first delivery.
SqsMessageHandleLenient(msg) ==
    LET body == JsonLoads(msg.Body) IN
    IF ~body.ok THEN [ok |-> FALSE, err |-> body.err]
    ELSE [ok |-> TRUE,
          v |-> [message_id |-> Get(msg, "MessageId"),
                 body |-> body.v,
                 receipt_handle |-> msg.ReceiptHandle,
                 receive_count |->
                     IF "ApproximateReceiveCount" \in DOMAIN msg.Attributes
                        /\ ParseInt(msg.Attributes.ApproximateReceiveCount).ok
                     THEN ParseInt(msg.Attributes.ApproximateReceiveCount).v
                     ELSE 1]]

\* sqs.py MessageHandle(...) as built in run(): Body parsed, receive count
\* read from the attributes.  The first failing field raises.
SqsMessageHandle(msg) ==
    LET body == JsonLoads(msg.Body) IN
    IF ~body.ok THEN [ok |-> FALSE, err |-> body.err]
    ELSE IF "ApproximateReceiveCount" \notin DOMAIN msg.Attributes
    THEN [ok |-> FALSE, err |-> "KeyError"]
    ELSE LET n == ParseInt(msg.Attributes.ApproximateReceiveCount) IN
         IF ~n.ok THEN [ok |-> FALSE, err |-> n.err]
         ELSE [ok |-> TRUE,
               v |-> [message_id |-> Get(msg, "MessageId"),
                      body |-> body.v,
                      receipt_handle |-> msg.ReceiptHandle,
                      receive_count |-> n.v]]

\* aws_queue_listener.py MessageHandle(msg): a view of the raw record.
AwsMessageHandle(msg) ==
    [body |-> msg.Body, receipt_handle |-> msg.ReceiptHandle]

\* The key of the body each SqsMessage field is read from.
FieldKey ==
    [type |-> "Type", message_id |-> "MessageId", topic_arn |-> "TopicArn",
     subject |-> "Subject", message |-> "Message", timestamp |-> "Timestamp",
     signature_version |-> "SignatureVersion", signature |-> "Signature",
     signing_cert_url |-> "SigningCertURL",
     unsubscribe_url |-> "UnsubscribeURL"]

\* A faulty variant: message_id is read from a misspelt key.
from_json_typo(msg) ==
    [f \in DOMAIN FieldKey |->
        IF f = "message_id" THEN Get(msg, "MessageID") ELSE Get(msg, FieldKey[f])]

\* A faulty variant: a Message that is JSON text is decoded in a second pass.
from_json_decoded(msg) ==
    [f \in DOMAIN FieldKey |->
        IF f = "message" /\ JsonLoads(Get(msg, "Message")).ok
        THEN JsonLoads(Get(msg, "Message")).v
        ELSE Get(msg, FieldKey[f])]

\* aws_queue_listener.SqsMessage.from_json: every field by dict.get.
from_json(msg) == [f \in DOMAIN FieldKey |-> Get(msg, FieldKey[f])]

\* sqs.py: the SqsMessage built in process_message; message is parsed.
SqsMessageOf(body, inner) == [from_json(body) EXCEPT !.message = inner]

(* ------------------------ the process_message task -------------------- *)
NewTask(msg, msg_handle) ==
    [msg |-> msg, msg_handle |-> msg_handle, st |-> "created", invoked |-> <<>>,
     result |-> "pending", deletes |-> <<>>, logged |-> "none",
     exc |-> "none"]

\* A faulty variant: a record whose processing failed is deleted all the
\* same.
LoggedAndDeleted(t, e) ==
    [t EXCEPT !.st = "deleting", !.logged = e,
              !.deletes = Append(@, t.msg_handle.receipt_handle)]

\* The except branch: _LOGGER.exception(e), task finished.
Logged(t, e) == [t EXCEPT !.st = "done", !.logged = e]

\* A faulty variant: the delete call is issued for every handle of the batch so far
\* (a bulk delete), not for the task's own record alone.
IssueDeleteBulk(t) ==
    [t EXCEPT !.st = "deleting",
              !.deletes = @ \o [i \in 1..t.msg_handle.receipt_handle |-> i]]

\* await delete_message(ReceiptHandle=...) issued by the task.
IssueDelete(t) ==
    [t EXCEPT !.st = "deleting",
              !.deletes = Append(@, t.msg_handle.receipt_handle)]

\* A faulty variant: the record is acknowledged as the handler is called.
InvokeAckFirst(t, handler, message) ==
    [t EXCEPT !.st = "handling",
              !.invoked = Append(@, [handler |-> handler, message |-> message]),
              !.deletes = Append(@, t.msg_handle.receipt_handle)]

\* await handler(message) issued by the task.
Invoke(t, handler, message) ==
    [t EXCEPT !.st = "handling",
              !.invoked = Append(@, [handler |-> handler, message |-> message])]

\* A faulty variant: the retry ceiling is compared one too high.
SqsProcessLateRetire(t) ==
    IF t.msg_handle.receive_count > max_retry_count + 1
    THEN IssueDelete([t EXCEPT !.logged = "poison"])
    ELSE LET body == t.msg_handle.body
             inner == JsonLoads(Get(body, "Message"))
         IN  IF ~inner.ok THEN Logged(t, inner.err)
             ELSE Invoke(t, message_handler, SqsMessageOf(body, inner.v))

\* A faulty variant: a record is retired on the delivery that reaches the
\* retry count.
SqsProcessEarlyRetire(t) ==
    IF t.msg_handle.receive_count >= max_retry_count
    THEN IssueDelete([t EXCEPT !.logged = "poison"])
    ELSE LET body == t.msg_handle.body
             inner == JsonLoads(Get(body, "Message"))
         IN  IF ~inner.ok THEN Logged(t, inner.err)
             ELSE Invoke(t, message_handler, SqsMessageOf(body, inner.v))

\* A faulty variant: a record over the retry count is logged and left on
\* the queue.
SqsProcessNoRetire(t) ==
    IF t.msg_handle.receive_count > max_retry_count
    THEN Logged(t, "poison")
    ELSE LET body == t.msg_handle.body
             inner == JsonLoads(Get(body, "Message"))
         IN  IF ~inner.ok THEN Logged(t, inner.err)
             ELSE Invoke(t, message_handler, SqsMessageOf(body, inner.v))

\* A faulty variant: a record without a Subject is skipped.
SqsProcessBySubject(t) ==
    IF t.msg_handle.receive_count > max_retry_count
    THEN IssueDelete([t EXCEPT !.logged = "poison"])
    ELSE LET body == t.msg_handle.body
             inner == JsonLoads(Get(body, "Message"))
         IN  IF ~inner.ok THEN Logged(t, inner.err)
             ELSE IF Get(body, "Subject") = PyNone THEN Logged(t, "KeyError")
             ELSE Invoke(t, message_handler, SqsMessageOf(body, inner.v))

\* SqsListener.run.process_message up to its first await.
SqsProcess(t) ==
    IF t.msg_handle.receive_count > max_retry_count
    THEN IssueDelete([t EXCEPT !.logged = "poison"])
    ELSE LET body == t.msg_handle.body
             inner == JsonLoads(Get(body, "Message"))
         IN  IF ~inner.ok THEN Logged(t, inner.err)
             ELSE Invoke(t, message_handler, SqsMessageOf(body, inner.v))

\* A faulty variant: a subject without an entry falls back to the first handler.
json_message_processor_default(t) ==
    LET body == JsonLoads(t.msg_handle.body) IN
    IF ~body.ok THEN Logged(t, body.err)
    ELSE LET message == from_json(body.v) IN
         IF message.subject.t = "str" /\ message.subject.raw \in DOMAIN handlers
         THEN Invoke(t, handlers[message.subject.raw], message)
         ELSE Invoke(t, handlers.A, message)

\* json_message_processor up to its first await.
json_message_processor(t) ==
    LET body == JsonLoads(t.msg_handle.body) IN
    IF ~body.ok THEN Logged(t, body.err)
    ELSE LET message == from_json(body.v) IN
         IF message.subject.t = "str" /\ message.subject.raw \in DOMAIN handlers
         THEN Invoke(t, handlers[message.subject.raw], message)
         ELSE Logged(t, "KeyError")

\* AwsQueueListener.run.process_message up to its first await.
AwsProcess(t) == json_message_processor(t)

\* A faulty variant: the delete call is made only on a truthy acknowledgment.
AfterHandlerIfTruthy(t, ret) ==
    IF ret = "True" THEN IssueDelete([t EXCEPT !.result = ret])
    ELSE [t EXCEPT !.st = "done", !.result = ret]

\* The handler returned `ret`: the task goes on to the delete call.
AfterHandler(t, ret) == IssueDelete([t EXCEPT !.result = ret])

\* A faulty variant: the delete call sits in a finally clause.
AfterHandlerRaisedFinally(t) ==
    IssueDelete([t EXCEPT !.result = "raised", !.logged = "HandlerError"])

\* The handler raised: caught and logged by process_message.
AfterHandlerRaised(t) == Logged([t EXCEPT !.result = "raised"], "HandlerError")

\* The delete call returned.
AfterDelete(t) == [t EXCEPT !.st = "done"]

\* A faulty variant: a failed delete call is issued again.
AfterDeleteRaisedRetry(t) == IssueDelete(t)

\* The delete call raised: inside the try block it is caught and logged; on
\* the poison path (outside the try) it ends the task with the exception.
AfterDeleteRaised(t) ==
    IF t.logged = "poison"
    THEN [t EXCEPT !.st = "done", !.exc = "TransportError"]
    ELSE Logged(t, "TransportError")

(* ------------------------------ the loop ------------------------------ *)
\* AttributeNames of the receive call: SqsListener asks for
\* ApproximateReceiveCount, AwsQueueListener for no attribute.
AttributeNames ==
    IF listener = "SqsListener" THEN {"ApproximateReceiveCount"} ELSE {}

\* The Attributes a record may come with: without the request, none.
Attrs ==
    IF "ApproximateReceiveCount" \in AttributeNames
    THEN QueueContents[queue].attrs ELSE {[SenderId |-> "s"]}

Min(a, b) == IF a < b THEN a ELSE b

\* The responses the transport may give to a request for n records: at
\* most n records, with fresh receipt handles.
Responses(n) ==
    UNION { { [i \in 1..k |-> Record(delivered + i, b[i], a[i])] :
                b \in [1..k -> QueueContents[queue].bodies], a \in [1..k -> Attrs] } :
            k \in 0..Min(n, QueueContents[queue].size - delivered) }

\* The handles of a response, or the first failure of the comprehension.
MsgHandles(messages) ==
    IF listener = "SqsListener"
    THEN LET bad == {i \in DOMAIN messages : ~SqsMessageHandle(messages[i]).ok}
         IN  IF bad # {}
             THEN [ok |-> FALSE,
                   err |-> SqsMessageHandle(messages[CHOOSE i \in bad :
                                               \A j \in bad : i <= j]).err]
             ELSE [ok |-> TRUE,
                   v |-> [i \in DOMAIN messages |-> SqsMessageHandle(messages[i]).v]]
    ELSE [ok |-> TRUE, v |-> [i \in DOMAIN messages |-> AwsMessageHandle(messages[i])]]

\* MaxNumberOfMessages of the receive call.
RequestSize == max_num_msgs

\* running_tasks after a dispatch: a new list holding the new tasks.
Dispatched(old, new) == new

\* A task that has completed has its done callbacks scheduled at once
\* (call_soon): they run before the event loop next polls for I/O, so the
\* steps that are I/O completions wait for them.
Settled == \A h \in DOMAIN tasks : tasks[h].st # "done"

\* One pass of `while True` up to asyncio.wait: the receive call, the
\* handles, and one task per handle.
Receive ==
    /\ pc = "receive"
    /\ Settled
    /\ last_request' = [MaxNumberOfMessages |-> RequestSize,
                        AttributeNames |-> AttributeNames,
                        running |-> Cardinality(InFlight)]
    /\ \E messages \in Responses(RequestSize) :
         LET msg_handles == MsgHandles(messages) IN
         /\ delivered' = delivered + Len(messages)
         /\ IF ~msg_handles.ok
            THEN /\ pc' = "raised"
                 /\ error' = [exc |-> msg_handles.err, messages |-> messages]
                 /\ UNCHANGED <<tasks, running_tasks>>
            ELSE IF Len(messages) = 0
            THEN UNCHANGED <<pc, error, tasks, running_tasks>>
            ELSE LET new == {messages[i].ReceiptHandle : i \in DOMAIN messages} IN
                 /\ tasks' = [h \in DOMAIN tasks \cup new |->
                                IF h \in new
                                THEN NewTask(messages[h - delivered],
                                             msg_handles.v[h - delivered])
                                ELSE tasks[h]]
                 /\ running_tasks' = Dispatched(running_tasks, new)
                 /\ pc' = "wait"
                 /\ UNCHANGED error
    /\ UNCHANGED <<config, elsewhere>>

\* The receive call raised: nothing in run() catches it.
ReceiveRaises ==
    /\ pc = "receive"
    /\ Settled
    /\ last_request' = [MaxNumberOfMessages |-> RequestSize,
                        AttributeNames |-> AttributeNames,
                        running |-> Cardinality(InFlight)]
    /\ pc' = "raised"
    /\ error' = [exc |-> "TransportError", messages |-> <<>>]
    /\ UNCHANGED <<config, elsewhere, delivered, tasks,
                   running_tasks>>

\* A faulty variant: the wait has a timeout, it also returns when no task
\* has completed yet.
WaitTimesOut ==
    /\ pc = "wait"
    /\ Settled
    /\ running_tasks' = running_tasks \cap InFlight
    /\ pc' = "receive"
    /\ UNCHANGED <<config, elsewhere, error, delivered,
                   last_request, tasks>>

\* A faulty variant: the wait is a barrier, it returns when every task of
\* running_tasks has completed.
WaitAllReturns ==
    /\ pc = "wait"
    /\ Settled
    /\ running_tasks \cap InFlight = {}
    /\ running_tasks' = {}
    /\ pc' = "receive"
    /\ UNCHANGED <<config, elsewhere, error, delivered,
                   last_request, tasks>>

\* asyncio.wait(..., FIRST_COMPLETED) returns; the completed tasks leave
\* running_tasks and the loop goes round.
WaitReturns ==
    /\ pc = "wait"
    /\ Settled
    /\ LET tasks_completed == running_tasks \ InFlight IN
       /\ tasks_completed # {}
       /\ running_tasks' = running_tasks \ tasks_completed
    /\ pc' = "receive"
    /\ UNCHANGED <<config, elsewhere, error, delivered,
                   last_request, tasks>>

\* Task h takes one step to t.
Step(h, t) ==
    /\ tasks' = [tasks EXCEPT ![h] = t]
    /\ UNCHANGED <<config, elsewhere, pc, error,
                   delivered, last_request, running_tasks>>

\* A dispatched task runs to its first await.
TaskStarts ==
    \E h \in DOMAIN tasks :
        /\ tasks[h].st = "created"
        /\ Step(h, IF listener = "SqsListener" THEN SqsProcess(tasks[h])
                   ELSE AwsProcess(tasks[h]))

\* The done callbacks of a completed task have run: the event loop lets go
\* of the task.
TaskReleased ==
    \E h \in DOMAIN tasks :
        /\ tasks[h].st = "done"
        /\ tasks' = [k \in DOMAIN tasks \ {h} |-> tasks[k]]
        /\ UNCHANGED <<config, elsewhere, pc, error,
                       delivered, last_request, running_tasks>>

\* What a handler may return.
HandlerResults == {"True", "False", "None"}

HandlerReturns ==
    \E h \in DOMAIN tasks, ret \in HandlerResults :
        /\ Settled
        /\ tasks[h].st = "handling"
        /\ Step(h, AfterHandler(tasks[h], ret))

HandlerRaises ==
    \E h \in DOMAIN tasks :
        /\ Settled
        /\ tasks[h].st = "handling"
        /\ Step(h, AfterHandlerRaised(tasks[h]))

DeleteReturns ==
    \E h \in DOMAIN tasks :
        /\ Settled
        /\ tasks[h].st = "deleting"
        /\ Step(h, AfterDelete(tasks[h]))

DeleteRaises ==
    \E h \in DOMAIN tasks :
        /\ Settled
        /\ tasks[h].st = "deleting"
        /\ Step(h, AfterDeleteRaised(tasks[h]))

Next ==
    \/ Receive
    \/ ReceiveRaises
    \/ WaitReturns
    \/ TaskStarts
    \/ TaskReleased
    \/ HandlerReturns
    \/ HandlerRaises
    \/ DeleteReturns
    \/ DeleteRaises

Spec == Init /\ [][Next]_vars

\* run() started on a backlog of well-formed records.
BacklogInit == Init /\ queue = "backlog"

\* The event loop runs every callback that is ready: a task that was
\* created starts, the done callbacks of a completed task run, and a wait
\* whose future is resolved returns.  Nothing is assumed of the handlers
\* and of the transport: a handler or a delete call may never come back.
\* The queue is the backlog of well-formed records, whose tasks all go
\* through a handler.
FairSpec ==
    /\ BacklogInit
    /\ [][Next]_vars
    /\ WF_vars(TaskStarts)
    /\ WF_vars(TaskReleased)
    /\ WF_vars(WaitReturns)

\* The event loop as in FairSpec, and besides every awaited call comes
\* back: the receive call is answered, a handler returns or raises, a
\* delete call returns or raises.
LiveSpec ==
    /\ Spec
    /\ WF_vars(TaskStarts)
    /\ WF_vars(TaskReleased)
    /\ WF_vars(WaitReturns)
    /\ WF_vars(Receive)
    /\ WF_vars(HandlerReturns \/ HandlerRaises)
    /\ WF_vars(DeleteReturns \/ DeleteRaises)

(* ---------------------------- construction --------------------------- *)
\* The max_num_msgs a caller may pass: values SQS accepts as
\* MaxNumberOfMessages (1..10) and values it does not.
Sizes == {-1, 0, 11} \cup 1..MaxNumMsgs

\* A call of the constructor with its arguments, before __init__ has run.
NewListener ==
    /\ listener \in {"SqsListener", "AwsQueueListener"}
    /\ max_num_msgs \in Sizes
    /\ max_retry_count \in (IF listener = "SqsListener" THEN 0..MaxRetry ELSE {0})
    /\ pc = "new"
    /\ error = NoError
    /\ queue = "mixed"
    /\ delivered = 0
    /\ last_request = [MaxNumberOfMessages |-> 0, AttributeNames |-> {}, running |-> 0]
    /\ tasks = <<>>
    /\ running_tasks = {}
    /\ lambda_call = Absent
    /\ bucket = Absent
    /\ aws_queue = Absent
    /\ aws_base = Absent
    /\ provisioning = Absent
    /\ logs = Absent
    /\ sqs_queue = Absent
    /\ decoding = Absent

\* __init__ stores its arguments as they are; run() is then entered and
\* opens its client.
Construct ==
    /\ pc = "new"
    /\ pc' = "receive"
    /\ UNCHANGED <<config, elsewhere, error, delivered, last_request, tasks,
                   running_tasks>>

ConstructNext ==
    \/ Construct
    \/ Receive
    \/ ReceiveRaises
    \/ WaitReturns
    \/ TaskStarts
    \/ TaskReleased
    \/ HandlerReturns
    \/ HandlerRaises
    \/ DeleteReturns
    \/ DeleteRaises

ConstructSpec == NewListener /\ [][ConstructNext]_vars

(* ------------------------------ AwsBase ------------------------------- *)
\* The variables of the listener, for the behaviours it has no part in.
listening == <<config, pc, error, delivered, last_request, tasks, running_tasks>>

NoListener ==
    /\ listener = "none"
    /\ max_num_msgs = 0
    /\ max_retry_count = 0
    /\ pc = "absent"
    /\ error = NoError
    /\ queue = "mixed"
    /\ delivered = 0
    /\ last_request = [MaxNumberOfMessages |-> 0, AttributeNames |-> {}, running |-> 0]
    /\ tasks = <<>>
    /\ running_tasks = {}

Callers == 1..MaxCallers
Closers == 1..MaxClosers

\* AwsBase.__init__: no client (0 stands for None; a client is named by a
\* positive number), a free lock.  init_lock is the holder followed by the
\* waiters in the order they arrived (asyncio.Lock wakes them first come,
\* first served).  created counts the clients the context stack has
\* entered; a caller that has returned keeps the _client it left set.
\* context_stack holds the clients whose exit the stack has registered,
\* open the clients whose context is entered and not exited.
AwsBaseObject ==
    [client |-> 0, init_lock |-> <<>>, created |-> 0,
     callers |-> [c \in Callers |-> [pc |-> "idle", client |-> 0]],
     context_stack |-> <<>>, open |-> {},
     closers |-> [k \in Closers |-> [pc |-> "idle", client |-> 0]]]

\* Leaving `async with self._init_lock`.
Release(init_lock, c) == SelectSeq(init_lock, LAMBDA x : x # c)

\* The body of the `async with` up to its await: return when the client
\* is set, else start entering a new client's context.
UnderLock(b, c) ==
    IF b.client # 0
    THEN [b EXCEPT !.init_lock = Release(@, c),
                   !.callers[c] = [pc |-> "returned", client |-> b.client]]
    ELSE [b EXCEPT !.callers[c].pc = "entering"]

\* A faulty variant: the body runs without taking the lock.
init_client_unguarded(b, c) == UnderLock(b, c)

\* init_client_if_required up to its first suspension: the lock is taken
\* at once when free, else the caller queues for it.
init_client_if_required(b, c) ==
    IF b.init_lock = <<>>
    THEN UnderLock([b EXCEPT !.init_lock = <<c>>], c)
    ELSE [b EXCEPT !.init_lock = Append(@, c), !.callers[c].pc = "waiting"]

InitCalled ==
    \E c \in Callers :
        /\ aws_base.callers[c].pc = "idle"
        /\ aws_base' = init_client_if_required(aws_base, c)
        /\ UNCHANGED <<listening, clients, provisioning, logs, sqs_queue, decoding>>

\* The lock was released to the first waiter, which goes on.
LockAcquired ==
    \E c \in Callers :
        /\ aws_base.callers[c].pc = "waiting"
        /\ Head(aws_base.init_lock) = c
        /\ aws_base' = UnderLock(aws_base, c)
        /\ UNCHANGED <<listening, clients, provisioning, logs, sqs_queue, decoding>>

\* enter_async_context(session.create_client(...)) returned a client.
ClientEntered ==
    \E c \in Callers :
        /\ aws_base.callers[c].pc = "entering"
        /\ aws_base' =
             [aws_base EXCEPT
                 !.created = @ + 1,
                 !.client = aws_base.created + 1,
                 !.context_stack = Append(@, aws_base.created + 1),
                 !.open = @ \cup {aws_base.created + 1},
                 !.init_lock = Release(@, c),
                 !.callers[c] = [pc |-> "returned",
                                 client |-> aws_base.created + 1]]
        /\ UNCHANGED <<listening, clients, provisioning, logs, sqs_queue, decoding>>

\* enter_async_context raised: the lock is released, the caller gets the
\* exception, _client stays as it was.
ClientEnterRaises ==
    \E c \in Callers :
        /\ aws_base.callers[c].pc = "entering"
        /\ aws_base' =
             [aws_base EXCEPT !.init_lock = Release(@, c),
                              !.callers[c].pc = "raised"]
        /\ UNCHANGED <<listening, clients, provisioning, logs, sqs_queue, decoding>>

AwsBaseInit ==
    /\ NoListener
    /\ lambda_call = Absent
    /\ bucket = Absent
    /\ aws_queue = Absent
    /\ aws_base = AwsBaseObject
    /\ provisioning = Absent
    /\ logs = Absent
    /\ sqs_queue = Absent
    /\ decoding = Absent

AwsBaseNext ==
    \/ InitCalled
    \/ LockAcquired
    \/ ClientEntered
    \/ ClientEnterRaises

AwsBaseSpec == AwsBaseInit /\ [][AwsBaseNext]_vars

(* --------------------------- AwsBase.close ---------------------------- *)
\* AsyncExitStack.aclose takes the last registered context off the stack
\* and awaits its exit; with nothing registered it returns without
\* suspending and close() goes on to `self._client = None`.
Unwind(b, k) ==
    IF b.context_stack = <<>>
    THEN [b EXCEPT !.client = 0, !.closers[k] = [pc |-> "closed", client |-> 0]]
    ELSE [b EXCEPT
            !.context_stack = SubSeq(@, 1, Len(@) - 1),
            !.closers[k] = [pc |-> "exiting",
                            client |-> b.context_stack[Len(b.context_stack)]]]

\* A faulty variant: close() leaves _client as it is.
close_keeps_client(b, k) ==
    IF b.context_stack = <<>>
    THEN [b EXCEPT !.closers[k] = [pc |-> "closed", client |-> 0]]
    ELSE [b EXCEPT
            !.context_stack = SubSeq(@, 1, Len(@) - 1),
            !.closers[k] = [pc |-> "exiting",
                            client |-> b.context_stack[Len(b.context_stack)]]]

\* close(), from the point where aclose has a context to take or is done.
close(b, k) == Unwind(b, k)

\* close() is called and runs to its first suspension.
CloseCalled ==
    \E k \in Closers :
        /\ aws_base.closers[k].pc = "idle"
        /\ aws_base' = close(aws_base, k)
        /\ UNCHANGED <<listening, clients, provisioning, logs, sqs_queue, decoding>>

\* The client's __aexit__ has closed it; the coroutine that awaits the
\* exit is ready to run but has not run yet.
ContextExited ==
    \E k \in Closers :
        /\ aws_base.closers[k].pc = "exiting"
        /\ aws_base' = [aws_base EXCEPT
                          !.open = @ \ {aws_base.closers[k].client},
                          !.closers[k].pc = "resuming"]
        /\ UNCHANGED <<listening, clients, provisioning, logs, sqs_queue, decoding>>

\* close() runs on after the exit it awaited.
CloseResumed ==
    \E k \in Closers :
        /\ aws_base.closers[k].pc = "resuming"
        /\ aws_base' = close(aws_base, k)
        /\ UNCHANGED <<listening, clients, provisioning, logs, sqs_queue, decoding>>

\* init_client_if_required and close in any interleaving.
AwsBaseCloseNext ==
    \/ InitCalled
    \/ LockAcquired
    \/ ClientEntered
    \/ ClientEnterRaises
    \/ CloseCalled
    \/ ContextExited
    \/ CloseResumed

AwsBaseCloseSpec == AwsBaseInit /\ [][AwsBaseCloseNext]_vars

\* No call on the instance is in progress.
Quiet ==
    /\ \A c \in Callers : aws_base.callers[c].pc \in {"idle", "returned", "raised"}
    /\ \A k \in Closers : aws_base.closers[k].pc \in {"idle", "closed"}

\* Calls made one after the other: a call starts when none is in progress.
NextInitCalled == Quiet /\ InitCalled
NextCloseCalled == Quiet /\ CloseCalled

AwsBaseSequentialNext ==
    \/ NextInitCalled
    \/ NextCloseCalled
    \/ ClientEntered
    \/ ClientEnterRaises
    \/ ContextExited
    \/ CloseResumed

AwsBaseSequentialSpec == AwsBaseInit /\ [][AwsBaseSequentialNext]_vars

(* ------------------------- queue provisioning ------------------------ *)
\* A Python list, and a dict where a list may stand as well.
List(items) == [t |-> "list", items |-> items]
Obj(d) == [t |-> "dict", d |-> d]

\* dict.get(k, default).
GetOr(d, k, default) == IF k \in DOMAIN d THEN d[k] ELSE default
\* d[k] = v.
Put(d, k, v) == [x \in DOMAIN d \cup {k} |-> IF x = k THEN v ELSE d[x]]

QueueArn == "arn:aws:sqs:queue"
\* create_topic(Name=...) answers with the topic's ARN.
TopicArn == [t1 |-> "arn:aws:sns:t1", t2 |-> "arn:aws:sns:t2"]

\* The policy the code starts from when the queue has none.
NewPolicy ==
    [Version |-> "2012-10-17",
     Statement |-> List(<<[Sid |-> "Sid", Effect |-> "Allow",
                           Principal |-> "*", Action |-> "sqs:SendMessage"]>>)]

\* statement = policy.get("Statement", [{}])[0]
FirstStatement(policy) ==
    LET Statement == GetOr(policy, "Statement", List(<< <<>> >>)) IN
    IF Statement.t = "list"
    THEN IF Statement.items = <<>> THEN [ok |-> FALSE, err |-> "IndexError"]
         ELSE [ok |-> TRUE, v |-> Statement.items[1]]
    ELSE [ok |-> FALSE, err |-> "KeyError"]

\* The statement with Resource, Condition and StringLike filled in.
Completed(statement) ==
    LET Condition == GetOr(statement, "Condition", <<>>)
        StringLike == GetOr(Condition, "StringLike", <<>>)
    IN  Put(Put(statement, "Resource", GetOr(statement, "Resource", QueueArn)),
            "Condition", Put(Condition, "StringLike", StringLike))

\* source_arn: the aws:SourceArn of the statement as a list.
SourceArnList(statement) ==
    LET source_arn == GetOr(statement.Condition.StringLike, "aws:SourceArn",
                            List(<<>>))
    IN  IF source_arn.t = "list" THEN source_arn.items ELSE <<source_arn.raw>>

\* A faulty variant: the lengthened list is not stored in the statement.
WithoutSourceArn(policy, statement, source_arn) ==
    Put(policy, "Statement", Obj(statement))

\* The policy sent to set_queue_attributes: the list stored back in the
\* statement, the statement stored as the policy's Statement.
WithSourceArn(policy, statement, source_arn) ==
    LET Condition == statement.Condition IN
    Put(policy, "Statement",
        Obj(Put(statement, "Condition",
                Put(Condition, "StringLike",
                    Put(Condition.StringLike, "aws:SourceArn",
                        List(source_arn))))))

\* A policy left by an earlier run of this code for topic t1.
OwnPolicy ==
    WithSourceArn(NewPolicy, Completed(FirstStatement(NewPolicy).v),
                  <<TopicArn.t1>>)

\* The Policy attribute the queue may have before the call: none, one
\* without a condition, one naming one topic as a string, one naming topic
\* t1 in a list, and one written by this code.
Policies ==
    { PyNone,
      Dumps(NewPolicy),
      Dumps([Version |-> "2012-10-17",
             Statement |-> List(<<[Effect |-> "Allow", Resource |-> QueueArn,
                 Condition |-> [StringLike |->
                     ("aws:SourceArn" :> Raw("arn:aws:sns:other"))]]>>)]),
      Dumps([Version |-> "2012-10-17",
             Statement |-> List(<<[Effect |-> "Allow", Resource |-> QueueArn,
                 Condition |-> [StringLike |->
                     ("aws:SourceArn" :> List(<<TopicArn.t1>>))]]>>)]),
      Dumps(OwnPolicy) }

\* The aws:SourceArn values of a queue's Policy attribute, as a reader of
\* the policy document finds them: Statement may be one statement or a list.
PolicySourceArns(Policy) ==
    IF Policy.t = "none" THEN {}
    ELSE LET Statement == JsonLoads(Policy).v.Statement
             statement == IF Statement.t = "list" THEN Statement.items[1]
                          ELSE Statement.d
             Condition == GetOr(statement, "Condition", <<>>)
             StringLike == GetOr(Condition, "StringLike", <<>>)
             source_arn == GetOr(StringLike, "aws:SourceArn", List(<<>>))
         IN  IF source_arn.t = "list"
             THEN {source_arn.items[i] : i \in DOMAIN source_arn.items}
             ELSE {source_arn.raw}

\* A call of one of the two provisioning functions, awaiting its clients,
\* and the queue as it is at that time.  pc names the call being awaited;
\* calls lists the requests issued so far; exists, Policy and
\* subscriptions are the transport's side.
ProvisioningCalls ==
    { [fn |-> fn, pc |-> "clients", topic_name |-> topic_name,
       policy |-> <<>>, statement |-> <<>>, source_arn |-> <<>>,
       exc |-> "none", calls |-> <<>>,
       exists |-> (Policy # PyNone), before |-> Policy, Policy |-> Policy,
       subscriptions |-> {}] :
      fn \in {"create_queue_with_subscription", "subscribe_topic"},
      topic_name \in DOMAIN TopicArn,
      Policy \in Policies }

\* The next request goes out.
Issue(p, call) == [p EXCEPT !.calls = Append(@, call), !.pc = call]

Provision(p) ==
    /\ provisioning' = p
    /\ UNCHANGED <<listening, clients, aws_base, logs, sqs_queue, decoding>>

\* The sqs client is there (the `async with` of the function, or
\* init_client_if_required of the Queue): create_queue is called.
ClientsReady ==
    /\ provisioning.pc = "clients"
    /\ Provision(Issue(provisioning, "create_queue"))

\* create_queue returned: get_queue_attributes is called.
QueueCreated ==
    /\ provisioning.pc = "create_queue"
    /\ Provision(Issue([provisioning EXCEPT !.exists = TRUE],
                       "get_queue_attributes"))

\* get_queue_attributes returned: the policy, its statement and source_arn
\* are worked out; then create_topic is called, in subscribe_topic after
\* the sns client has been entered.
AttributesReturned ==
    /\ provisioning.pc = "get_queue_attributes"
    /\ LET policy == IF provisioning.Policy.t # "none"
                      THEN JsonLoads(provisioning.Policy).v ELSE NewPolicy
           first == FirstStatement(policy)
       IN  IF ~first.ok
           THEN Provision([provisioning EXCEPT !.pc = "raised",
                                               !.exc = first.err])
           ELSE LET statement == Completed(first.v)
                    p == [provisioning EXCEPT
                            !.policy = policy,
                            !.statement = statement,
                            !.source_arn = SourceArnList(statement)]
                IN  IF p.fn = "subscribe_topic"
                    THEN Provision([p EXCEPT !.pc = "sns_client"])
                    ELSE Provision(Issue(p, "create_topic"))

\* subscribe_topic: the sns client is entered, create_topic is called.
SnsEntered ==
    /\ provisioning.pc = "sns_client"
    /\ Provision(Issue(provisioning, "create_topic"))

\* create_topic returned: a topic not yet in source_arn is added and the
\* policy is sent; else subscribe is called at once.
TopicCreated ==
    /\ provisioning.pc = "create_topic"
    /\ LET topic_arn == TopicArn[provisioning.topic_name]
           source_arn == provisioning.source_arn
       IN  IF \A i \in DOMAIN source_arn : source_arn[i] # topic_arn
           THEN Provision(Issue(
                    [provisioning EXCEPT
                        !.source_arn = Append(source_arn, topic_arn),
                        !.policy = WithSourceArn(provisioning.policy,
                                       provisioning.statement,
                                       Append(source_arn, topic_arn))],
                    "set_queue_attributes"))
           ELSE Provision(Issue(provisioning, "subscribe"))

\* set_queue_attributes returned: subscribe is called.
AttributesSet ==
    /\ provisioning.pc = "set_queue_attributes"
    /\ Provision(Issue([provisioning EXCEPT !.Policy = Dumps(provisioning.policy)],
                       "subscribe"))

\* subscribe returned: the function is over, subscribe_topic after it has
\* closed its sns client.
Subscribed ==
    /\ provisioning.pc = "subscribe"
    /\ LET p == [provisioning EXCEPT
                   !.subscriptions = @ \cup {TopicArn[provisioning.topic_name]}]
       IN  IF p.fn = "subscribe_topic"
           THEN Provision(Issue(p, "close"))
           ELSE Provision([p EXCEPT !.pc = "done"])

SnsClosed ==
    /\ provisioning.pc = "close"
    /\ Provision([provisioning EXCEPT !.pc = "done"])

\* The call being awaited raised: nothing catches it.
ProvisioningCallRaises ==
    /\ provisioning.pc \in {"clients", "create_queue", "get_queue_attributes",
                             "sns_client", "create_topic",
                             "set_queue_attributes", "subscribe", "close"}
    /\ Provision([provisioning EXCEPT !.pc = "raised",
                                      !.exc = "TransportError"])

ProvisioningInit ==
    /\ NoListener
    /\ lambda_call = Absent
    /\ bucket = Absent
    /\ aws_queue = Absent
    /\ aws_base = Absent
    /\ provisioning \in ProvisioningCalls
    /\ logs = Absent
    /\ sqs_queue = Absent
    /\ decoding = Absent

ProvisioningNext ==
    \/ ClientsReady
    \/ QueueCreated
    \/ AttributesReturned
    \/ SnsEntered
    \/ TopicCreated
    \/ AttributesSet
    \/ Subscribed
    \/ SnsClosed
    \/ ProvisioningCallRaises

ProvisioningSpec == ProvisioningInit /\ [][ProvisioningNext]_vars

(* ------------------------- Logs.get_structlog_events ------------------ *)
\* What filter_log_events may answer: some events, with or without a
\* nextToken.
LogResponses ==
    { [events |-> n, nextToken |-> tok] :
        n \in 0..MaxPage, tok \in {PyNone, Raw("token")} }

\* A call of get_structlog_events awaiting its first fetch.  events is the
\* length of the local list; responses are the answers received so far.
StructlogCalls ==
    { [pc |-> "fetch", max_recursion |-> m, i |-> 0, next_token |-> PyNone,
       events |-> 0, responses |-> <<>>, returned |-> 0, exc |-> "none"] :
      m \in 0..MaxRecursion }

\* `while next_token is not None`: another fetch, or return events.
WhileNextToken(l) ==
    IF l.next_token # PyNone THEN [l EXCEPT !.pc = "more"]
    ELSE [l EXCEPT !.pc = "returned", !.returned = l.events]

\* Lines 293-295: the first answer.
FirstFetched(l, r) ==
    WhileNextToken([l EXCEPT !.events = r.events,
                             !.next_token = r.nextToken,
                             !.i = 1,
                             !.responses = Append(@, r)])

\* A faulty variant: the fetch count is compared one too high.
LaterBreak(l, r) ==
    LET m == [l EXCEPT !.events = @ + r.events,
                       !.next_token = r.nextToken,
                       !.responses = Append(@, r)]
    IN  IF m.i > m.max_recursion /\ m.next_token # PyNone
        THEN [m EXCEPT !.pc = "returned", !.returned = m.events]
        ELSE WhileNextToken([m EXCEPT !.i = @ + 1])

\* Lines 306-314: the answer to a follow-up fetch; break when i has
\* reached max_recursion and there is still a token.
MoreFetched(l, r) ==
    LET m == [l EXCEPT !.events = @ + r.events,
                       !.next_token = r.nextToken,
                       !.responses = Append(@, r)]
    IN  IF m.i >= m.max_recursion /\ m.next_token # PyNone
        THEN [m EXCEPT !.pc = "returned", !.returned = m.events]
        ELSE WhileNextToken([m EXCEPT !.i = @ + 1])

FetchReturns ==
    /\ logs.pc = "fetch"
    /\ \E r \in LogResponses : logs' = FirstFetched(logs, r)
    /\ UNCHANGED <<listening, clients, aws_base, provisioning, sqs_queue, decoding>>

MoreFetchReturns ==
    /\ logs.pc = "more"
    /\ \E r \in LogResponses : logs' = MoreFetched(logs, r)
    /\ UNCHANGED <<listening, clients, aws_base, provisioning, sqs_queue, decoding>>

\* _filter_structlog_events raised: get_structlog_events lets it through.
FetchRaises ==
    /\ logs.pc \in {"fetch", "more"}
    /\ logs' = [logs EXCEPT !.pc = "raised", !.exc = "TransportError"]
    /\ UNCHANGED <<listening, clients, aws_base, provisioning, sqs_queue, decoding>>

LogsInit ==
    /\ NoListener
    /\ lambda_call = Absent
    /\ bucket = Absent
    /\ aws_queue = Absent
    /\ aws_base = Absent
    /\ provisioning = Absent
    /\ logs \in StructlogCalls
    /\ sqs_queue = Absent
    /\ decoding = Absent

LogsNext ==
    \/ FetchReturns
    \/ MoreFetchReturns
    \/ FetchRaises

\* Every fetch is answered in the end, by a response or by an exception.
LogsSpec == LogsInit /\ [][LogsNext]_vars /\ WF_vars(LogsNext)

(* --------------- get_structlog_events on a paged log stream ----------- *)
\* The nextToken that stands for page k of a stream.
Token(k) == [t |-> "str", page |-> k]

\* The streams a log group may hold: the number of events on each page.
Streams == UNION { [1..n -> 0..MaxPage] : n \in 1..MaxPages }

\* filter_log_events on a stream: without a nextToken the first page, with
\* one the page it stands for; a nextToken comes back while pages are left.
Answer(stream, request) ==
    LET k == IF request.nextToken = PyNone THEN 1 ELSE request.nextToken.page
    IN  [events |-> stream[k],
         nextToken |-> IF k < Len(stream) THEN Token(k + 1) ELSE PyNone,
         page |-> k]

\* The arguments of a fetch that decide the page: both the first fetch and
\* every follow-up pass the caller's **kwargs, next_token is not among them.
Request(l) == [nextToken |-> l.kwargs]

\* A call of get_structlog_events on a stream, awaiting its first fetch;
\* the caller may have passed a nextToken of their own in **kwargs.
PagedCalls ==
    { [pc |-> "fetch", max_recursion |-> m, i |-> 0, next_token |-> PyNone,
       events |-> 0, responses |-> <<>>, returned |-> 0, exc |-> "none",
       stream |-> s, kwargs |-> k, requests |-> <<>>] :
      m \in 0..MaxRecursion, s \in Streams,
      k \in {PyNone} \cup {Token(n) : n \in 2..MaxPages} }

PagedFetchReturns ==
    /\ logs.pc = "fetch"
    /\ logs' = FirstFetched([logs EXCEPT !.requests = Append(@, Request(logs))],
                            Answer(logs.stream, Request(logs)))
    /\ UNCHANGED <<listening, clients, aws_base, provisioning, sqs_queue, decoding>>

PagedMoreFetchReturns ==
    /\ logs.pc = "more"
    /\ logs' = MoreFetched([logs EXCEPT !.requests = Append(@, Request(logs))],
                           Answer(logs.stream, Request(logs)))
    /\ UNCHANGED <<listening, clients, aws_base, provisioning, sqs_queue, decoding>>

PagedLogsInit ==
    /\ NoListener
    /\ lambda_call = Absent
    /\ bucket = Absent
    /\ aws_queue = Absent
    /\ aws_base = Absent
    /\ provisioning = Absent
    /\ logs \in {l \in PagedCalls :
                   l.kwargs = PyNone \/ l.kwargs.page <= Len(l.stream)}
    /\ sqs_queue = Absent
    /\ decoding = Absent

PagedLogsNext ==
    \/ PagedFetchReturns
    \/ PagedMoreFetchReturns

PagedLogsSpec == PagedLogsInit /\ [][PagedLogsNext]_vars

(* ------------------- SqsListener on a redelivering queue -------------- *)
\* The queue holds well-formed notifications.  A message that is received
\* is hidden while its task runs; its ApproximateReceiveCount is the number
\* of times it has been received.  When the task ends and its delete call
\* did not take effect, the message is visible again.
Messages == 1..MaxMessages

NewMessage == [receive_count |-> 0, state |-> "visible", handled |-> 0]

\* The delete call of task t took effect: it was issued and did not raise.
Acknowledged(t) ==
    /\ t.deletes # <<>>
    /\ t.logged # "TransportError"
    /\ t.exc = "none"

\* The record of the next delivery of message m, with receipt handle h.
Redelivered(m, h) ==
    [MessageId |-> m, ReceiptHandle |-> h, Body |-> WellFormed,
     Attributes |-> [ApproximateReceiveCount |->
                        Digits[sqs_queue.messages[m].receive_count + 1]]]

\* The responses to a request for n records: at most n of the visible
\* messages, lowest MessageId first, with fresh receipt handles.
Redeliveries(n) ==
    LET visible == {m \in Messages :
                      /\ sqs_queue.messages[m].state = "visible"
                      /\ sqs_queue.messages[m].receive_count < MaxDeliveries}
    IN  { [i \in 1..Cardinality(batch) |->
             Redelivered(CHOOSE m \in batch :
                             Cardinality({o \in batch : o < m}) = i - 1,
                         delivered + i)] :
          batch \in {b \in SUBSET visible : Cardinality(b) <= n} }

\* One pass of `while True` up to asyncio.wait, on the redelivering queue.
ReceiveRedelivered ==
    /\ pc = "receive"
    /\ Settled
    /\ last_request' = [MaxNumberOfMessages |-> RequestSize,
                        AttributeNames |-> AttributeNames,
                        running |-> Cardinality(InFlight)]
    /\ \E messages \in Redeliveries(RequestSize) :
         LET msg_handles == MsgHandles(messages)
             batch == {messages[i].MessageId : i \in DOMAIN messages}
         IN
         /\ delivered' = delivered + Len(messages)
         /\ sqs_queue' = [sqs_queue EXCEPT !.messages =
                            [m \in Messages |->
                               IF m \in batch
                               THEN [@[m] EXCEPT !.receive_count = @ + 1,
                                                 !.state = "in flight"]
                               ELSE @[m]]]
         /\ IF ~msg_handles.ok
            THEN /\ pc' = "raised"
                 /\ error' = [exc |-> msg_handles.err, messages |-> messages]
                 /\ UNCHANGED <<tasks, running_tasks>>
            ELSE IF Len(messages) = 0
            THEN UNCHANGED <<pc, error, tasks, running_tasks>>
            ELSE LET new == {messages[i].ReceiptHandle : i \in DOMAIN messages} IN
                 /\ tasks' = [h \in DOMAIN tasks \cup new |->
                                IF h \in new
                                THEN NewTask(messages[h - delivered],
                                             msg_handles.v[h - delivered])
                                ELSE tasks[h]]
                 /\ running_tasks' = Dispatched(running_tasks, new)
                 /\ pc' = "wait"
                 /\ UNCHANGED error
    /\ UNCHANGED <<config, clients, aws_base, provisioning, logs, decoding>>

\* The done callbacks of a completed task have run; the queue has deleted
\* the message, or shows it again.
TaskSettled ==
    \E h \in DOMAIN tasks :
        /\ tasks[h].st = "done"
        /\ tasks' = [k \in DOMAIN tasks \ {h} |-> tasks[k]]
        /\ sqs_queue' = [sqs_queue EXCEPT !.messages[tasks[h].msg.MessageId] =
                            [@ EXCEPT !.state = IF Acknowledged(tasks[h])
                                                THEN "deleted" ELSE "visible",
                                      !.handled = @ + Len(tasks[h].invoked)]]
        /\ UNCHANGED <<config, clients, aws_base, provisioning, logs, decoding, pc, error,
                       delivered, last_request, running_tasks>>

\* A listener with max_num_msgs at its default of 1: one record is in
\* flight at a time.
RedeliveryInit ==
    /\ listener = "SqsListener"
    /\ max_num_msgs = 1
    /\ max_retry_count \in 0..MaxRetry
    /\ pc = "receive"
    /\ error = NoError
    /\ queue = "backlog"
    /\ delivered = 0
    /\ last_request = [MaxNumberOfMessages |-> 0, AttributeNames |-> {}, running |-> 0]
    /\ tasks = <<>>
    /\ running_tasks = {}
    /\ lambda_call = Absent
    /\ bucket = Absent
    /\ aws_queue = Absent
    /\ aws_base = Absent
    /\ provisioning = Absent
    /\ logs = Absent
    /\ sqs_queue = [pc |-> "redelivering", messages |-> [m \in Messages |-> NewMessage]]
    /\ decoding = Absent

RedeliveryNext ==
    \/ ReceiveRedelivered
    \/ WaitReturns
    \/ TaskStarts
    \/ TaskSettled
    \/ HandlerReturns
    \/ HandlerRaises
    \/ DeleteReturns
    \/ DeleteRaises

\* The event loop runs what is ready, and every awaited call comes back:
\* the receive call is answered, a handler returns or raises, a delete call
\* returns or raises.
RedeliverySpec ==
    /\ RedeliveryInit
    /\ [][RedeliveryNext]_vars
    /\ WF_vars(ReceiveRedelivered)
    /\ WF_vars(WaitReturns)
    /\ WF_vars(TaskStarts)
    /\ WF_vars(TaskSettled)
    /\ WF_vars(HandlerReturns \/ HandlerRaises)
    /\ WF_vars(DeleteReturns \/ DeleteRaises)

(* ------------------------ decoding one body twice --------------------- *)
\* The inner documents of the notifications that are decoded.
Docs ==
    { InnerDoc, [Data |-> Raw("")], [Data |-> [Nested |-> Raw("x")]],
      [Other |-> Raw("y")] }

\* Well-formed record bodies: JSON text of a notification whose Message is
\* JSON text, with or without a Subject.
DoubleEncoded ==
    { Dumps(Notification(subject, id, Dumps(doc))) :
        subject \in {"A", "X"}, id \in {"m1", "m2"}, doc \in Docs }
    \cup { Dumps([Type |-> Raw("Notification"), MessageId |-> Raw(id),
                  Message |-> Dumps(doc)]) : id \in {"m1", "m2"}, doc \in Docs }

\* The SqsMessage a listener builds from the dict `body`, or what raises.
Payload(variant, body) ==
    IF variant = "SqsListener"
    THEN LET inner == JsonLoads(Get(body, "Message")) IN
         IF inner.ok THEN SqsMessageOf(body, inner.v) ELSE [raised |-> inner.err]
    ELSE from_json(body)

\* A faulty variant: the Message is taken out of the dict (dict.pop) as it
\* is decoded.
DecodePopping(d) ==
    [d EXCEPT !.payloads = Append(@, Payload(d.listener, d.body)),
              !.body = [k \in DOMAIN d.body \ {"Message"} |-> d.body[k]]]

\* One decoding of the dict d.body: every field is read with dict.get, the
\* dict stays as it is.
Decode(d) ==
    [d EXCEPT !.payloads = Append(@, Payload(d.listener, d.body))]

Decodes ==
    /\ decoding.pc = "decoding"
    /\ Len(decoding.payloads) < MaxDecodes
    /\ decoding' = Decode(decoding)
    /\ UNCHANGED <<listening, clients, aws_base, provisioning, logs, sqs_queue>>

DecodeInit ==
    /\ NoListener
    /\ lambda_call = Absent
    /\ bucket = Absent
    /\ aws_queue = Absent
    /\ aws_base = Absent
    /\ provisioning = Absent
    /\ logs = Absent
    /\ sqs_queue = Absent
    /\ decoding \in { [pc |-> "decoding", listener |-> l,
                       body |-> JsonLoads(b).v, original |-> JsonLoads(b).v,
                       payloads |-> <<>>] :
                      l \in {"SqsListener", "AwsQueueListener"},
                      b \in DoubleEncoded }

DecodeNext == Decodes

DecodeSpec == DecodeInit /\ [][DecodeNext]_vars

(* ------------------------------- invoke ------------------------------- *)
\* What one POST may end in: a response with a status and a body that is
\* JSON text or not, a connection that cannot be made, a timeout.
Outcomes ==
    { [kind |-> "response", status |-> st, body |-> b] :
        st \in {200, 500},
        b \in { Dumps([result |-> Raw("a")]), Dumps([errorMessage |-> Raw("b")]),
                Raw("<html>") } }
    \cup { [kind |-> k, status |-> 0, body |-> PyNone] :
             k \in {"ClientConnectorError", "TimeoutError"} }

\* A call of invoke() of aws_lambda.py or of lambda.py, with a payload that
\* is a dict json.dumps accepts.  attempts lists what the POST requests
\* issued so far ended in, the one in progress excepted.
InvokeCalls ==
    { [module |-> m, pc |-> "called", retries |-> n, retry |-> 0,
       attempts |-> <<>>, returned |-> PyNone, exc |-> "none"] :
      m \in {"aws_lambda", "lambda"}, n \in -1..MaxRetries }

\* `for retry in range(retries, 0, -1)` at the value retry: a POST is
\* issued, or the loop is over and {} is returned.
ForRetry(l, retry) ==
    IF retry > 0 THEN [l EXCEPT !.retry = retry, !.pc = "post"]
    ELSE [l EXCEPT !.pc = "returned", !.returned = Obj(<<>>)]

\* `continue`.
Continue(l) == ForRetry(l, l.retry - 1)

\* A faulty variant: a 200 answer is returned only by the last attempt.
AfterAttemptLast(l, o) ==
    LET m == [l EXCEPT !.attempts = Append(@, o)] IN
    IF o.kind = "response"
    THEN LET json == JsonLoads(o.body) IN
         IF ~json.ok THEN [m EXCEPT !.pc = "raised", !.exc = json.err]
         ELSE IF o.status # 200 \/ m.retry > 1 THEN Continue(m)
         ELSE [m EXCEPT !.pc = "returned", !.returned = Obj(json.v)]
    ELSE IF o.kind = "ClientConnectorError" THEN Continue(m)
    ELSE IF m.module = "aws_lambda"
    THEN [m EXCEPT !.pc = "returned", !.returned = Obj(<<>>)]
    ELSE Continue(m)

\* The body of the loop once the POST has ended in o: response.json() is
\* awaited for every response, to log it when the status is not 200 and to
\* return it when it is; ClientConnectorError is logged; TimeoutError ends
\* the call in aws_lambda and is logged in lambda.
AfterAttempt(l, o) ==
    LET m == [l EXCEPT !.attempts = Append(@, o)] IN
    IF o.kind = "response"
    THEN LET json == JsonLoads(o.body) IN
         IF ~json.ok THEN [m EXCEPT !.pc = "raised", !.exc = json.err]
         ELSE IF o.status # 200 THEN Continue(m)
         ELSE [m EXCEPT !.pc = "returned", !.returned = Obj(json.v)]
    ELSE IF o.kind = "ClientConnectorError" THEN Continue(m)
    ELSE IF m.module = "aws_lambda"
    THEN [m EXCEPT !.pc = "returned", !.returned = Obj(<<>>)]
    ELSE Continue(m)

\* invoke() up to its first POST.
InvokeStarts ==
    /\ lambda_call.pc = "called"
    /\ lambda_call' = ForRetry(lambda_call, lambda_call.retries)
    /\ UNCHANGED <<listening, aws_base, provisioning, logs, sqs_queue, decoding,
                   bucket, aws_queue>>

\* The POST in progress ends.
AttemptEnds ==
    /\ lambda_call.pc = "post"
    /\ \E o \in Outcomes : lambda_call' = AfterAttempt(lambda_call, o)
    /\ UNCHANGED <<listening, aws_base, provisioning, logs, sqs_queue, decoding,
                   bucket, aws_queue>>

LambdaInit ==
    /\ NoListener
    /\ lambda_call \in InvokeCalls
    /\ bucket = Absent
    /\ aws_queue = Absent
    /\ aws_base = Absent
    /\ provisioning = Absent
    /\ logs = Absent
    /\ sqs_queue = Absent
    /\ decoding = Absent

LambdaNext ==
    \/ InvokeStarts
    \/ AttemptEnds

\* Every POST ends: async_timeout bounds the time an attempt may take.
LambdaSpec == LambdaInit /\ [][LambdaNext]_vars /\ WF_vars(LambdaNext)

(* ------------------------------ S3Bucket ------------------------------ *)
\* datetime.datetime(1900, 1, 1), the origin the times are counted from.
Year1900 == 0
Datetime(at) == [t |-> "datetime", at |-> at]

STATE_NOT_EXISTING == "not_existing"
STATE_OK == "ok"
STATE_PRECONDITION_FAILED == "precondition_failed"

\* The keys of the bucket's objects, and one the bucket does not hold.
Keys == {"k.txt", "k.gz"}
MissingKey == "missing.txt"

IsGz(key) == key = "k.gz"

\* What the bucket holds under its keys: text, gzip-compressed under a key
\* ending in .gz, as store_data writes it.
Stored(key, text) ==
    IF IsGz(key) THEN [t |-> "bytes", gzip |-> [t |-> "bytes", utf8 |-> text]]
    ELSE [t |-> "bytes", utf8 |-> text]

\* Lines 53-59: the body of a .gz key decompressed to bytes, any other
\* body decoded as UTF-8 to a str.
Loaded(key, res) ==
    IF IsGz(key) THEN res.gzip ELSE [t |-> "str", raw |-> res.utf8]

\* get_object(Key, IfUnmodifiedSince): NoSuchKey for a key the bucket does
\* not hold, PreconditionFailed for an object modified after the given
\* time, else the object.
GetObject(b, key, since) ==
    IF key \notin Keys THEN [ok |-> FALSE, err |-> "NoSuchKey"]
    ELSE IF b.last_modified > since.at
    THEN [ok |-> FALSE, err |-> "PreconditionFailed"]
    ELSE [ok |-> TRUE, Body |-> Stored(key, "content")]

\* Lines 36-37: the time sent as IfUnmodifiedSince.
IfUnmodifiedSince(if_unmodified_since) ==
    IF if_unmodified_since = PyNone THEN Datetime(Year1900)
    ELSE if_unmodified_since

\* A call of load_data on a bucket whose objects were last modified at
\* last_modified.
LoadCalls ==
    { [op |-> "load_data", pc |-> "called", key |-> key,
       if_unmodified_since |-> since, last_modified |-> at,
       calls |-> <<>>, data |-> PyNone, state |-> "none", exc |-> "none"] :
      key \in Keys \cup {MissingKey},
      since \in {PyNone} \cup {Datetime(n) : n \in 1..MaxTime},
      at \in 1..MaxTime }

\* A call of store_data.
StoreCalls ==
    { [op |-> "store_data", pc |-> "called", key |-> key, first_retry |-> n,
       retry |-> n, calls |-> <<>>, exc |-> "none"] :
      key \in Keys, n \in -1..MaxStoreRetry }

Call(b, name) == [b EXCEPT !.calls = Append(@, name), !.pc = name]

\* A faulty variant: the bucket is created and the put repeated while
\* retry is not negative.
no_such_bucket_once_more(b) ==
    IF b.retry < 0 THEN [b EXCEPT !.pc = "raised", !.exc = "NoSuchBucket"]
    ELSE Call(b, "create_bucket")

\* Lines 83-86: put_object raised NoSuchBucket.
no_such_bucket(b) ==
    IF b.retry <= 0 THEN [b EXCEPT !.pc = "raised", !.exc = "NoSuchBucket"]
    ELSE Call(b, "create_bucket")

S3Step(b) ==
    /\ bucket' = b
    /\ UNCHANGED <<listening, aws_base, provisioning, logs, sqs_queue, decoding,
                   lambda_call, aws_queue>>

\* load_data, load_data_metadata up to get_object.
LoadCalled ==
    /\ bucket.op = "load_data"
    /\ bucket.pc = "called"
    /\ S3Step(Call(bucket, "get_object"))

\* get_object has answered: load_data returns.
GetObjectAnswers ==
    /\ bucket.op = "load_data"
    /\ bucket.pc = "get_object"
    /\ LET raw == GetObject(bucket, bucket.key,
                            IfUnmodifiedSince(bucket.if_unmodified_since))
       IN  IF raw.ok
           THEN S3Step([bucket EXCEPT !.pc = "returned",
                                      !.data = Loaded(bucket.key, raw.Body),
                                      !.state = STATE_OK])
           ELSE S3Step([bucket EXCEPT
                          !.pc = "returned",
                          !.state = IF raw.err = "NoSuchKey"
                                    THEN STATE_NOT_EXISTING
                                    ELSE STATE_PRECONDITION_FAILED])

\* store_data up to put_object.
StoreCalled ==
    /\ bucket.op = "store_data"
    /\ bucket.pc = "called"
    /\ S3Step(Call(bucket, "put_object"))

PutObjectReturns ==
    /\ bucket.op = "store_data"
    /\ bucket.pc = "put_object"
    /\ S3Step([bucket EXCEPT !.pc = "returned"])

PutObjectNoSuchBucket ==
    /\ bucket.op = "store_data"
    /\ bucket.pc = "put_object"
    /\ S3Step(no_such_bucket(bucket))

\* create() is over, its create_bucket call having returned or raised
\* BucketAlreadyOwnedByYou: store_data(key, data, retry - 1) puts again.
BucketCreated ==
    /\ bucket.op = "store_data"
    /\ bucket.pc = "create_bucket"
    /\ S3Step(Call([bucket EXCEPT !.retry = @ - 1], "put_object"))

\* A call raised an error the method does not catch.
S3CallRaises ==
    /\ bucket.pc \in {"get_object", "put_object", "create_bucket"}
    /\ S3Step([bucket EXCEPT !.pc = "raised", !.exc = "ClientError"])

S3Init ==
    /\ NoListener
    /\ lambda_call = Absent
    /\ bucket \in LoadCalls \cup StoreCalls
    /\ aws_queue = Absent
    /\ aws_base = Absent
    /\ provisioning = Absent
    /\ logs = Absent
    /\ sqs_queue = Absent
    /\ decoding = Absent

S3Next ==
    \/ LoadCalled
    \/ GetObjectAnswers
    \/ StoreCalled
    \/ PutObjectReturns
    \/ PutObjectNoSuchBucket
    \/ BucketCreated
    \/ S3CallRaises

S3Spec == S3Init /\ [][S3Next]_vars

(* -------------------------------- Queue ------------------------------- *)
Pending == [t |-> "pending"]

\* Queue.__init__: no queue_url, no client (0 stands for None).  subscribe
\* is where a call of subscribe_topic stands, calls the requests sent to
\* SQS so far, made the number of receive_message and send_message calls,
\* op the last of them.
QueueObject ==
    [queue_url |-> PyNone, client |-> 0, subscribe |-> "idle", calls |-> <<>>,
     made |-> 0, op |-> [name |-> "none", pc |-> "idle", result |-> Pending]]

\* The request `name` is sent by method `method`, which awaits the answer.
Awaiting(q, method, name) ==
    [q EXCEPT !.calls = Append(@, name),
              !.made = @ + 1,
              !.op = [name |-> method, pc |-> "awaiting", result |-> Pending]]

\* Method `method` returns `result` without having awaited anything.
ReturnedAtOnce(q, method, result) ==
    [q EXCEPT !.made = @ + 1,
              !.op = [name |-> method, pc |-> "returned", result |-> result]]

\* Queue.receive_message up to its await.
receive_message(q) ==
    IF q.queue_url = PyNone
    THEN ReturnedAtOnce(q, "receive_message", List(<<PyNone>>))
    ELSE Awaiting(q, "receive_message", "receive_message")

\* A faulty variant: the client is initialised before queue_url is looked
\* at.
send_message_init_first(q) ==
    IF q.queue_url = PyNone
    THEN ReturnedAtOnce([q EXCEPT !.client = 1], "send_message", PyNone)
    ELSE Awaiting([q EXCEPT !.client = 1], "send_message", "send_message")

\* Queue.send_message up to its await; init_client_if_required finds the
\* client subscribe_topic has set.
send_message(q) ==
    IF q.queue_url = PyNone
    THEN ReturnedAtOnce(q, "send_message", PyNone)
    ELSE Awaiting([q EXCEPT !.client = 1], "send_message", "send_message")

QueueStep(q) ==
    /\ aws_queue' = q
    /\ UNCHANGED <<listening, aws_base, provisioning, logs, sqs_queue, decoding,
                   lambda_call, bucket>>

\* subscribe_topic is called: the client is initialised, create_queue is
\* sent.
SubscribeCalled ==
    /\ aws_queue.subscribe = "idle"
    /\ QueueStep([aws_queue EXCEPT !.client = 1,
                                   !.calls = Append(@, "create_queue"),
                                   !.subscribe = "create_queue"])

\* create_queue returned: queue_url is set, get_queue_attributes is sent.
QueueUrlSet ==
    /\ aws_queue.subscribe = "create_queue"
    /\ QueueStep([aws_queue EXCEPT !.queue_url = Raw("url"),
                                   !.calls = Append(@, "get_queue_attributes"),
                                   !.subscribe = "get_queue_attributes"])

\* The rest of subscribe_topic has run.
SubscribeReturns ==
    /\ aws_queue.subscribe = "get_queue_attributes"
    /\ QueueStep([aws_queue EXCEPT !.subscribe = "returned"])

\* A call of subscribe_topic raised.
SubscribeRaises ==
    /\ aws_queue.subscribe \in {"create_queue", "get_queue_attributes"}
    /\ QueueStep([aws_queue EXCEPT !.subscribe = "raised"])

ReceiveMessageCalled ==
    /\ aws_queue.op.pc # "awaiting"
    /\ aws_queue.made < MaxQueueCalls
    /\ QueueStep(receive_message(aws_queue))

SendMessageCalled ==
    /\ aws_queue.op.pc # "awaiting"
    /\ aws_queue.made < MaxQueueCalls
    /\ QueueStep(send_message(aws_queue))

\* SQS answered: receive_message returns the handles of the response (here
\* of an empty one), send_message the response.
QueueCallReturns ==
    /\ aws_queue.op.pc = "awaiting"
    /\ QueueStep([aws_queue EXCEPT
                    !.op.pc = "returned",
                    !.op.result = IF aws_queue.op.name = "receive_message"
                                  THEN List(<<>>)
                                  ELSE Obj([MessageId |-> Raw("id")])])

QueueCallRaises ==
    /\ aws_queue.op.pc = "awaiting"
    /\ QueueStep([aws_queue EXCEPT !.op.pc = "raised"])

QueueInit ==
    /\ NoListener
    /\ lambda_call = Absent
    /\ bucket = Absent
    /\ aws_queue = QueueObject
    /\ aws_base = Absent
    /\ provisioning = Absent
    /\ logs = Absent
    /\ sqs_queue = Absent
    /\ decoding = Absent

QueueNext ==
    \/ SubscribeCalled
    \/ QueueUrlSet
    \/ SubscribeReturns
    \/ SubscribeRaises
    \/ ReceiveMessageCalled
    \/ SendMessageCalled
    \/ QueueCallReturns
    \/ QueueCallRaises

QueueSpec == QueueInit /\ [][QueueNext]_vars

(* ------------------------------- claims ------------------------------- *)
\* The receive count a record carries, as the listener reads it.
ReceiveCountOf(msg) == ParseInt(msg.Attributes.ApproximateReceiveCount).v
\* The notification a record's Body encodes (for a Body that is JSON).
BodyOf(msg) == JsonLoads(msg.Body).v
HasJsonBody(msg) == JsonLoads(msg.Body).ok
IsPoison(msg) ==
    /\ listener = "SqsListener"
    /\ ReceiveCountOf(msg) > max_retry_count
HandlerReturned(t) == t.result \in HandlerResults

\* C1: the number of process_message tasks started and not yet completed
\* never exceeds max_num_msgs, across successive poll cycles.
C1_InFlightBounded == Cardinality(InFlight) <= max_num_msgs

\* C2: every receive call requests at most max_num_msgs minus the number of
\* tasks still running, and none is issued while max_num_msgs tasks run.
C2_Backpressure ==
    last_request.MaxNumberOfMessages > 0 =>
        /\ last_request.running < max_num_msgs
        /\ last_request.MaxNumberOfMessages
             <= max_num_msgs - last_request.running

\* C3: a record whose handler ran to completion without raising has exactly
\* one delete call issued for it, with its own receipt handle, and none for
\* another record.
C3_SuccessDeletesOnce ==
    \A h \in DOMAIN tasks :
        HandlerReturned(tasks[h]) => tasks[h].deletes = <<tasks[h].msg.ReceiptHandle>>

C3_Witness ==
    \E h \in DOMAIN tasks :
        /\ HandlerReturned(tasks[h])
        /\ tasks[h].st = "done"
        /\ tasks[h].deletes = <<h>>

\* C4: a record whose handler raised has no delete call issued for it.
C4_RaiseDeletesNothing ==
    \A h \in DOMAIN tasks :
        tasks[h].result = "raised" => tasks[h].deletes = <<>>

C4_Witness ==
    \E h \in DOMAIN tasks :
        /\ tasks[h].result = "raised"
        /\ tasks[h].st = "done"
        /\ Len(tasks[h].invoked) = 1

\* C5: in SqsListener a record with receive_count > max_retry_count never
\* reaches the handler, and its task issues exactly one delete call, with
\* the record's receipt handle.
C5_PoisonDeletedUnhandled ==
    \A h \in DOMAIN tasks :
        IsPoison(tasks[h].msg) =>
            /\ tasks[h].invoked = <<>>
            /\ tasks[h].result = "pending"
            /\ tasks[h].deletes =
                 IF tasks[h].st = "created" THEN <<>>
                 ELSE <<tasks[h].msg.ReceiptHandle>>

C5_Witness ==
    \E h \in DOMAIN tasks :
        /\ IsPoison(tasks[h].msg)
        /\ max_retry_count > 0
        /\ tasks[h].st = "done"
        /\ tasks[h].deletes = <<h>>

\* C6 as stated: a handler that returns a falsy acknowledgment (False, None)
\* leaves its record undeleted.
C6_FalsyNotDeleted ==
    \A h \in DOMAIN tasks :
        tasks[h].result \in {"False", "None"} => tasks[h].deletes = <<>>

\* C6 amended: a handler that returns without raising has its record deleted
\* once even when what it returns is falsy (False, None).
C6_FalsyStillDeleted ==
    \A h \in DOMAIN tasks :
        tasks[h].result \in {"False", "None"} =>
            Len(tasks[h].deletes) = 1

C6_Witness ==
    \E h \in DOMAIN tasks :
        /\ tasks[h].result \in {"False", "None"}
        /\ tasks[h].st = "deleting"

\* C7: a per-message failure (handler raising, unknown subject, undecodable
\* content) never terminates run(): only a failed receive call or a record
\* without a usable receive count does.
C7_PerMessageFailureContained ==
    pc = "raised" => error.exc \in {"TransportError", "KeyError", "ValueError"}

\* C8: in SqsListener a record whose Body is not valid JSON does not
\* terminate run().
C8_BadBodyContained ==
    ~ /\ listener = "SqsListener"
      /\ pc = "raised"
      /\ error.exc = "JSONDecodeError"
      /\ \E i \in DOMAIN error.messages : ~HasJsonBody(error.messages[i])

\* The subject of a record has an entry in the handlers mapping.
Routed(msg) ==
    LET subject == Get(BodyOf(msg), "Subject") IN
    subject.t = "str" /\ subject.raw \in DOMAIN handlers

\* C9: in AwsQueueListener a record whose Subject has no entry in handlers
\* has no handler invoked and no delete call issued, and its failure stays
\* in its task: run() ends on nothing but a failed receive call.
C9_UnknownSubjectSkipped ==
    listener = "AwsQueueListener" =>
        /\ \A h \in DOMAIN tasks :
               (HasJsonBody(tasks[h].msg) /\ ~Routed(tasks[h].msg)) =>
                   /\ tasks[h].invoked = <<>>
                   /\ tasks[h].deletes = <<>>
                   /\ tasks[h].exc = "none"
        /\ pc = "raised" => error.exc = "TransportError"

C9_Witness ==
    /\ listener = "AwsQueueListener"
    /\ pc = "wait"
    /\ \E h \in DOMAIN tasks :
           /\ HasJsonBody(tasks[h].msg)
           /\ Get(BodyOf(tasks[h].msg), "Subject") = Raw("X")
           /\ tasks[h].st = "done"
           /\ tasks[h].logged = "KeyError"

\* C10: json_message_processor, on a record whose Subject S has an entry in
\* handlers, invokes handlers[S] once and no other handler, with a message
\* whose subject, message_id and message are the body's Subject, MessageId
\* and Message.
C10_RoutedToOwnHandler ==
    listener = "AwsQueueListener" =>
        \A h \in DOMAIN tasks :
            (tasks[h].st # "created" /\ HasJsonBody(tasks[h].msg)
               /\ Routed(tasks[h].msg)) =>
                LET body == BodyOf(tasks[h].msg) IN
                /\ Len(tasks[h].invoked) = 1
                /\ tasks[h].invoked[1].handler = handlers[body.Subject.raw]
                /\ tasks[h].invoked[1].message.subject = body.Subject
                /\ tasks[h].invoked[1].message.message_id = body.MessageId
                /\ tasks[h].invoked[1].message.message = body.Message

C10_Witness ==
    /\ listener = "AwsQueueListener"
    /\ \E h \in DOMAIN tasks :
           /\ tasks[h].st = "handling"
           /\ Len(tasks[h].invoked) = 1
           /\ tasks[h].invoked[1].handler = "handle_a"
           /\ tasks[h].invoked[1].message.subject = Raw("A")
           /\ tasks[h].invoked[1].message.message_id = Raw("m1")
           /\ tasks[h].invoked[1].message.message = Dumps(InnerDoc)

\* Task h has had a handler invoked on a record whose Message is JSON text.
InvokedOnJson(h) ==
    /\ Len(tasks[h].invoked) = 1
    /\ HasJsonBody(tasks[h].msg)
    /\ JsonLoads(Get(BodyOf(tasks[h].msg), "Message")).ok

\* C11 as stated: in subject-routed dispatch (AwsQueueListener) the message
\* field of the payload handed to the handler is the parsed inner JSON
\* document of the body's Message, not the raw string.
C11_RoutedMessageParsed ==
    listener = "AwsQueueListener" =>
        \A h \in DOMAIN tasks :
            InvokedOnJson(h) =>
                tasks[h].invoked[1].message.message
                    = JsonLoads(Get(BodyOf(tasks[h].msg), "Message")).v

\* C11 amended: in subject-routed dispatch the message field of the payload
\* is the body's Message string as received, not decoded (the handler
\* decodes it); only SqsListener hands over the parsed inner document.
C11_RoutedMessageRaw ==
    \A h \in DOMAIN tasks :
        InvokedOnJson(h) =>
            LET Message == Get(BodyOf(tasks[h].msg), "Message")
                message == tasks[h].invoked[1].message.message
            IN  IF listener = "AwsQueueListener"
                THEN message = Message /\ JsonLoads(message).ok
                ELSE message = JsonLoads(Message).v

C11_Witness ==
    /\ listener = "AwsQueueListener"
    /\ \E h \in DOMAIN tasks :
           /\ InvokedOnJson(h)
           /\ tasks[h].st = "handling"
           /\ JsonLoads(tasks[h].invoked[1].message.message).v = InnerDoc

\* The record's Body and the Message inside it are both JSON text.
Decoded(msg) ==
    /\ HasJsonBody(msg)
    /\ JsonLoads(Get(BodyOf(msg), "Message")).ok

\* C12: SqsListener invokes its one message_handler, once, for every record
\* that decodes and is not poison, whatever the record's Subject, a
\* missing Subject included.
C12_SingleHandlerForAll ==
    listener = "SqsListener" =>
        \A h \in DOMAIN tasks :
            (tasks[h].st # "created" /\ Decoded(tasks[h].msg)
               /\ ~IsPoison(tasks[h].msg)) =>
                /\ Len(tasks[h].invoked) = 1
                /\ tasks[h].invoked[1].handler = message_handler
                /\ tasks[h].invoked[1].message.subject
                     = Get(BodyOf(tasks[h].msg), "Subject")

C12_Witness ==
    /\ listener = "SqsListener"
    /\ \E h \in DOMAIN tasks :
           /\ tasks[h].st = "handling"
           /\ tasks[h].invoked[1].handler = "message_handler"
           /\ tasks[h].invoked[1].message.subject = PyNone
           /\ tasks[h].invoked[1].message.message = InnerDoc

\* C14: a failure of the receive call leaves run() (it is neither swallowed
\* nor retried in the loop), and no failure of another kind leaves run().
C14_OnlyReceiveFailureLeavesRun ==
    /\ pc = "raised" => error.exc = "TransportError"
    /\ error.exc = "TransportError" => pc = "raised"

\* C15: a delete call is issued at most once per received record; when it
\* finishes, failed or not, on the success path or on the poison path, the
\* task is over without another delete call and run() stays where it is.
C15_DeleteNotRetried ==
    [][\A h \in DOMAIN tasks :
          (h \in DOMAIN tasks' /\ tasks[h].st = "deleting"
             /\ tasks'[h] # tasks[h]) =>
              /\ tasks'[h].st = "done"
              /\ tasks'[h].deletes = <<tasks[h].msg.ReceiptHandle>>
              /\ pc' = pc
              /\ error' = error]_vars

C15_Witness ==
    /\ pc = "wait"
    /\ \E h \in DOMAIN tasks :
           /\ tasks[h].st = "done"
           /\ tasks[h].logged = "TransportError"
           /\ HandlerReturned(tasks[h])
           /\ tasks[h].deletes = <<h>>

\* C19: once a batch is dispatched and at least one of its tasks has
\* completed, run() gets back to the receive call (nothing is awaited
\* between the wait and the call), whether or not the other tasks of the
\* batch ever complete.
C19_ResumesOnFirstCompleted ==
    (pc = "wait" /\ running_tasks \ InFlight # {}) ~> (pc = "receive")

\* run() is back at the receive call while tasks of the last batch are
\* still running.
C19_Witness ==
    /\ pc = "receive"
    /\ running_tasks # {}
    /\ running_tasks \subseteq InFlight
    /\ \E h \in running_tasks : tasks[h].st = "handling"

\* C20: running_tasks holds every task that has been dispatched and has not
\* completed.
C20_TracksAllInFlight == InFlight \subseteq running_tasks

\* C13: a listener whose max_num_msgs is outside 1..10 does not get past
\* construction, and no receive call is ever issued for it.
C13_OutOfRangeRejected ==
    max_num_msgs \notin 1..10 =>
        /\ pc = "new"
        /\ last_request.MaxNumberOfMessages = 0
        /\ delivered = 0

\* C16: however many coroutines call init_client_if_required on an AwsBase
\* whose client is unset, at most one client is ever created, and every
\* caller that returns leaves _client set to that one client.
C16_ClientCreatedOnce ==
    /\ aws_base.created <= 1
    /\ \A c \in Callers :
           aws_base.callers[c].pc = "returned" =>
               /\ aws_base.created = 1
               /\ aws_base.callers[c].client = 1
               /\ aws_base.client = 1

C16_Witness ==
    /\ \A c \in Callers : aws_base.callers[c].pc = "returned"
    /\ aws_base.created = 1
    /\ aws_base.init_lock = <<>>

\* The requests issued so far include `call`.
Called(call) ==
    \E i \in DOMAIN provisioning.calls : provisioning.calls[i] = call

\* C17: on a queue that had no policy, the subscribe call is issued only
\* once the queue's policy is set and names the topic's ARN under
\* aws:SourceArn; when the function completes the queue exists, its
\* policy names the topic and the queue is subscribed to the topic.
C17_ProvisionedInOrder ==
    provisioning.before = PyNone =>
        LET topic_arn == TopicArn[provisioning.topic_name] IN
        /\ Called("subscribe") =>
               /\ topic_arn \in PolicySourceArns(provisioning.Policy)
               /\ \E i, j \in DOMAIN provisioning.calls :
                      /\ i < j
                      /\ provisioning.calls[i] = "set_queue_attributes"
                      /\ provisioning.calls[j] = "subscribe"
        /\ provisioning.pc = "done" =>
               /\ provisioning.exists
               /\ topic_arn \in PolicySourceArns(provisioning.Policy)
               /\ topic_arn \in provisioning.subscriptions

C17_Witness ==
    /\ provisioning.pc = "done"
    /\ provisioning.before = PyNone
    /\ provisioning.topic_name = "t1"
    /\ provisioning.Policy = Dumps(OwnPolicy)
    /\ provisioning.subscriptions = {TopicArn.t1}

RECURSIVE SumEvents(_)
SumEvents(responses) ==
    IF responses = <<>> THEN 0
    ELSE responses[1].events + SumEvents(Tail(responses))

\* C18: get_structlog_events ends, even when every response has a
\* nextToken: after the first fetch it makes at most max_recursion more
\* (one for max_recursion below 1), and what it returns is the events of
\* all the responses it got.
C18_PagingEnds ==
    /\ [](/\ Len(logs.responses) <=
               1 + (IF logs.max_recursion >= 1 THEN logs.max_recursion ELSE 1)
          /\ logs.pc = "returned" =>
                 logs.returned = SumEvents(logs.responses))
    /\ <>(logs.pc \in {"returned", "raised"})

C18_Witness ==
    /\ logs.pc = "returned"
    /\ logs.max_recursion = 2
    /\ Len(logs.responses) = 3
    /\ \A k \in DOMAIN logs.responses : logs.responses[k].nextToken # PyNone
    /\ logs.returned = 3

\* C21: for a record that is not poison the order is decode, handler,
\* acknowledgment: a handler is invoked only on a record that decoded, and a
\* delete call is issued only once the record's handler has returned.
C21_DecodeHandleAck ==
    \A h \in DOMAIN tasks :
        tasks[h].logged # "poison" =>
            /\ tasks[h].invoked # <<>> =>
                   /\ HasJsonBody(tasks[h].msg)
                   /\ listener = "SqsListener" => Decoded(tasks[h].msg)
            /\ tasks[h].deletes # <<>> =>
                   /\ Len(tasks[h].invoked) = 1
                   /\ HandlerReturned(tasks[h])

C21_Witness ==
    \E h \in DOMAIN tasks :
        /\ tasks[h].logged = "none"
        /\ tasks[h].st = "deleting"
        /\ Len(tasks[h].invoked) = 1
        /\ tasks[h].result = "True"
        /\ tasks[h].deletes = <<h>>

\* The record carries a receive count above max_retry_count.
OverRetryCount(msg) ==
    /\ "ApproximateReceiveCount" \in DOMAIN msg.Attributes
    /\ ParseInt(msg.Attributes.ApproximateReceiveCount).ok
    /\ ReceiveCountOf(msg) > max_retry_count

\* C22: in SqsListener the poison check comes before the decoding of the
\* record's body: a record over the retry count is retired whether or not
\* its Body is valid JSON, it never ends run() with a decode error.
C22_PoisonCheckedBeforeDecode ==
    listener = "SqsListener" =>
        ~ /\ pc = "raised"
          /\ error.exc = "JSONDecodeError"
          /\ \A i \in DOMAIN error.messages :
                 ~HasJsonBody(error.messages[i]) =>
                     OverRetryCount(error.messages[i])

\* The record fails to decode inside its task: in SqsListener the Message
\* of a record that is not poison, in AwsQueueListener the Body.
FailsToDecodeInTask(msg) ==
    IF listener = "SqsListener"
    THEN /\ ~IsPoison(msg)
         /\ ~JsonLoads(Get(BodyOf(msg), "Message")).ok
    ELSE ~HasJsonBody(msg)

\* C23: the task of a record that fails to decode ends on its first step
\* with the failure logged, no handler invoked and no delete call issued,
\* and run() stays where it is.
C23_DecodeFailureSkipsRecord ==
    [][\A h \in DOMAIN tasks :
          (FailsToDecodeInTask(tasks[h].msg) /\ h \in DOMAIN tasks'
             /\ tasks'[h] # tasks[h]) =>
              /\ tasks[h].st = "created"
              /\ tasks'[h].st = "done"
              /\ tasks'[h].logged \in {"JSONDecodeError", "TypeError"}
              /\ tasks'[h].invoked = <<>>
              /\ tasks'[h].deletes = <<>>
              /\ tasks'[h].exc = "none"
              /\ pc' = pc
              /\ error' = error]_vars

C23_Witness ==
    /\ pc = "wait"
    /\ \E h \in DOMAIN tasks :
           /\ FailsToDecodeInTask(tasks[h].msg)
           /\ tasks[h].st = "done"
           /\ tasks[h].logged = "JSONDecodeError"
           /\ tasks[h].deletes = <<>>

\* C26: a handler that has not completed keeps its task as it is: nothing
\* but the handler's own return or raise ends it (no timeout, no
\* cancellation); and with max_num_msgs = 1 run() is never at the receive
\* call while a task is still running.
C26_HungHandlerKeepsSlot ==
    [][/\ \A h \in DOMAIN tasks :
             tasks[h].st = "handling" =>
                 /\ h \in DOMAIN tasks'
                 /\ \/ tasks'[h] = tasks[h]
                    \/ tasks'[h].result # "pending"
       /\ (max_num_msgs = 1 /\ InFlight' # {}) => pc' # "receive"]_vars

C26_Witness ==
    /\ max_num_msgs = 1
    /\ pc = "wait"
    /\ delivered = 1
    /\ \E h \in DOMAIN tasks : tasks[h].st = "handling"

\* The record carries a receive count that int() accepts.
UsableCount(msg) ==
    /\ "ApproximateReceiveCount" \in DOMAIN msg.Attributes
    /\ ParseInt(msg.Attributes.ApproximateReceiveCount).ok

\* C24: every receive call of SqsListener asks for ApproximateReceiveCount;
\* a batch is dispatched only when every record of it carries a usable
\* count, else run() ends with the error and no record of the batch gets a
\* task (no handler invoked, no delete call issued).
C24_MissingCountIsFatal ==
    [][(listener = "SqsListener"
          /\ (last_request' # last_request \/ delivered' # delivered)) =>
         /\ "ApproximateReceiveCount" \in last_request'.AttributeNames
         /\ LET batch == (delivered + 1)..delivered' IN
            IF pc' = "raised"
            THEN /\ \A h \in batch : h \notin DOMAIN tasks'
                 /\ tasks' = tasks
            ELSE \A h \in batch :
                    /\ h \in DOMAIN tasks'
                    /\ UsableCount(tasks'[h].msg)]_vars

C24_Witness ==
    /\ listener = "SqsListener"
    /\ pc = "raised"
    /\ error.exc \in {"KeyError", "ValueError"}
    /\ Len(error.messages) = 2
    /\ UsableCount(error.messages[1])
    /\ ~UsableCount(error.messages[2])
    /\ tasks = <<>>

\* C25: as long as no receive call fails (and every record carries a usable
\* receive count), run() is at its receive call again and again, whatever
\* the records hold: it never ends.
C25_LoopNeverEnds ==
    [](error.exc \notin {"TransportError", "KeyError", "ValueError"})
        => []<>(pc = "receive")


\* The handler calls a message has had: those of its finished tasks and
\* those of the tasks still running.
HandlerCalls(m) ==
    LET live == {h \in DOMAIN tasks : tasks[h].msg.MessageId = m
                                      /\ tasks[h].invoked # <<>>}
    IN  sqs_queue.messages[m].handled + Cardinality(live)

\* C28: on a redelivering queue a task of SqsListener calls the handler
\* exactly when its record's receive_count is at most max_retry_count (the
\* delivery with receive_count = max_retry_count included), and a message
\* reaches the handler at most max_retry_count times over all its
\* deliveries.
C28_HandledUpToRetryCount ==
    /\ \A h \in DOMAIN tasks :
         tasks[h].st # "created" =>
           (tasks[h].invoked # <<>>
              <=> tasks[h].msg_handle.receive_count <= max_retry_count)
    /\ \A m \in Messages : HandlerCalls(m) <= max_retry_count

\* A message was handled on the delivery with receive_count =
\* max_retry_count, came back and was retired.
C28_Witness ==
    \E m \in Messages :
        /\ max_retry_count >= 1
        /\ sqs_queue.messages[m].handled = max_retry_count
        /\ sqs_queue.messages[m].receive_count = max_retry_count + 1
        /\ sqs_queue.messages[m].state = "deleted"

\* No delete call of a task has raised.
NoDeleteRaised ==
    \A h \in DOMAIN tasks :
        tasks[h].logged # "TransportError" /\ tasks[h].exc = "none"

\* Message m is retired at the latest on delivery max_retry_count + 1.
WithinRetryCount(m) ==
    sqs_queue.messages[m].receive_count <= max_retry_count + 1

C30_FollowUpUsesNextToken ==
    /\ \A k \in DOMAIN logs.requests :
         k > 1 => logs.requests[k].nextToken = logs.responses[k - 1].nextToken
    /\ \A j, k \in DOMAIN logs.responses :
         j # k => logs.responses[j].page # logs.responses[k].page

\* C31: a provisioning call on a queue whose policy an earlier run of this
\* code wrote raises nothing of its own; when it is over the topic is
\* subscribed, with the earlier run's topic no set_queue_attributes call
\* was issued, and with a new topic the policy names both topics.
C31_RerunCompletes ==
    (provisioning.pc # "absent" /\ provisioning.before = Dumps(OwnPolicy)) =>
        /\ provisioning.exc \in {"none", "TransportError"}
        /\ provisioning.pc = "done" =>
             /\ TopicArn[provisioning.topic_name] \in provisioning.subscriptions
             /\ provisioning.topic_name = "t1" =>
                  \A i \in DOMAIN provisioning.calls :
                      provisioning.calls[i] # "set_queue_attributes"
             /\ provisioning.topic_name = "t2" =>
                  {TopicArn.t1, TopicArn.t2}
                      \subseteq PolicySourceArns(provisioning.Policy)

\* Caller c's init_client_if_required returns in this step.
InitReturns(c) ==
    /\ aws_base.callers[c].pc # "returned"
    /\ aws_base'.callers[c].pc = "returned"

\* C32: in any interleaving of init_client_if_required and close, at the
\* step in which init_client_if_required returns the instance has a client
\* and the context of that client has not been exited.
C32_InitLeavesLiveClient ==
    [][\A c \in Callers :
          InitReturns(c) => /\ aws_base'.client # 0
                            /\ aws_base'.client \in aws_base'.open]_vars

\* Closer k's close() completes in this step.
CloseReturns(k) ==
    /\ aws_base.closers[k].pc # "closed"
    /\ aws_base'.closers[k].pc = "closed"

\* C33: with init_client_if_required and close called one after the other,
\* when close completes the client is unset and no context is open; when
\* init_client_if_required returns the client is set and its context is
\* the one open context, a client entered in that call being the only new
\* one; at no time is more than one context open.
C33_OneClientAtATime ==
    [][/\ Cardinality(aws_base'.open) <= 1
       /\ \A k \in Closers :
            CloseReturns(k) => aws_base'.client = 0 /\ aws_base'.open = {}
       /\ \A c \in Callers :
            InitReturns(c) =>
               /\ aws_base'.client # 0
               /\ aws_base'.open = {aws_base'.client}
               /\ aws_base'.created = aws_base.created
                    + (IF aws_base.client = 0 THEN 1 ELSE 0)]_vars

\* init, close and init again have completed: the second client is the
\* open one.
C33_Witness ==
    /\ Quiet
    /\ aws_base.created = 2
    /\ aws_base.client = 2
    /\ aws_base.open = {2}
    /\ \E k \in Closers : aws_base.closers[k].pc = "closed"

\* Attempt o ended in a response other than 200 or in a connection error.
Failed(o) ==
    \/ o.kind = "response" /\ o.status # 200
    \/ o.kind = "ClientConnectorError"

\* C34: invoke() issues at most `retries` POST requests and comes to an
\* end; when every attempt ended in a response other than 200 or in a
\* connection error it does not raise and returns {}; with retries <= 0 it
\* issues no POST and returns {}.
C34_BoundedAttempts ==
    /\ [](/\ lambda_call.retries > 0 =>
               Len(lambda_call.attempts)
                 + (IF lambda_call.pc = "post" THEN 1 ELSE 0) <= lambda_call.retries
          /\ lambda_call.retries <= 0 =>
               lambda_call.attempts = <<>> /\ lambda_call.pc # "post"
          /\ (\A i \in DOMAIN lambda_call.attempts : Failed(lambda_call.attempts[i])) =>
               /\ lambda_call.pc # "raised"
               /\ lambda_call.pc = "returned" => lambda_call.returned = Obj(<<>>))
    /\ <>(lambda_call.pc \in {"returned", "raised"})

\* Attempt o was answered with HTTP 200 and a JSON body.
Answered200(o) ==
    o.kind = "response" /\ o.status = 200 /\ JsonLoads(o.body).ok

\* C35: an attempt answered with HTTP 200 and a JSON body is the last POST
\* invoke() issues, and invoke() has returned that body, whatever the
\* attempts before it ended in.
C35_FirstOkReturned ==
    \A i \in DOMAIN lambda_call.attempts :
        Answered200(lambda_call.attempts[i]) =>
            /\ i = Len(lambda_call.attempts)
            /\ lambda_call.pc = "returned"
            /\ lambda_call.returned = Obj(JsonLoads(lambda_call.attempts[i].body).v)

\* The first attempt was answered with 500 and a JSON body, the second
\* with 200 and another body: the second body is returned while an attempt
\* is left.
C35_Witness ==
    /\ lambda_call.pc = "returned"
    /\ lambda_call.retries = 3
    /\ Len(lambda_call.attempts) = 2
    /\ lambda_call.attempts[1].status = 500
    /\ lambda_call.attempts[1].body = Dumps([errorMessage |-> Raw("b")])
    /\ Answered200(lambda_call.attempts[2])
    /\ lambda_call.returned = Obj([result |-> Raw("a")])

\* An attempt of aws_lambda.invoke with attempts left has ended in o.
EndedEarly(o) ==
    /\ lambda_call.pc = "post"
    /\ lambda_call.module = "aws_lambda"
    /\ lambda_call.retry > 1
    /\ lambda_call'.attempts = Append(lambda_call.attempts, o)

\* C36: in aws_lambda.invoke, with attempts left, a timeout ends the call
\* with {} and no further POST, whereas a response other than 200 or a
\* connection error is followed by the next POST.
C36_TimeoutEndsCall ==
    [][\A o \in Outcomes :
          EndedEarly(o) =>
             /\ o.kind = "TimeoutError" =>
                  /\ lambda_call'.pc = "returned"
                  /\ lambda_call'.returned = Obj(<<>>)
             /\ Failed(o) =>
                  /\ lambda_call'.pc = "post"
                  /\ lambda_call'.retry = lambda_call.retry - 1]_vars

\* How many of the calls issued so far are calls of `name`.
Issued(name) ==
    Cardinality({i \in DOMAIN bucket.calls : bucket.calls[i] = name})

\* C37 as stated: store_data issues at most retry + 1 put_object calls;
\* with retry <= 0 it creates no bucket and NoSuchBucket is raised.
C37_AtMostRetryPlusOnePuts ==
    bucket.op = "store_data" =>
        /\ Issued("put_object") <= bucket.first_retry + 1
        /\ bucket.first_retry <= 0 => Issued("create_bucket") = 0

\* C37, amended: store_data issues one put_object call and after that one
\* more for each NoSuchBucket answered while retry > 0, at most max(retry,
\* 0) + 1 in all; each of those answers is followed by one create_bucket
\* call and a put with retry one less; with retry <= 0 no bucket is created
\* and NoSuchBucket is raised.
C37_PutsBoundedByRetry ==
    bucket.op = "store_data" =>
        /\ Issued("put_object")
             <= (IF bucket.first_retry > 0 THEN bucket.first_retry ELSE 0) + 1
        /\ bucket.pc # "called" => Issued("put_object") >= 1
        /\ Issued("create_bucket") <= Issued("put_object")
        /\ Issued("put_object") <= Issued("create_bucket") + 1
        /\ bucket.first_retry > 0 =>
             /\ bucket.first_retry - bucket.retry <= Issued("create_bucket")
             /\ Issued("create_bucket") <= bucket.first_retry - bucket.retry + 1
             /\ bucket.retry >= 0
        /\ bucket.exc = "NoSuchBucket" => bucket.retry <= 0
        /\ bucket.first_retry <= 0 => Issued("create_bucket") = 0

\* With retry = 2 the bucket was created twice and the third put answered
\* NoSuchBucket as well: it is raised.
C37_Witness ==
    /\ bucket.op = "store_data"
    /\ bucket.first_retry = 2
    /\ bucket.calls = <<"put_object", "create_bucket", "put_object",
                        "create_bucket", "put_object">>
    /\ bucket.exc = "NoSuchBucket"

\* C38: load_data without if_unmodified_since returns the content with
\* STATE_OK for every key the bucket holds; it returns STATE_NOT_EXISTING
\* only for a key the bucket does not hold and STATE_PRECONDITION_FAILED
\* only when the caller passed an if_unmodified_since earlier than the
\* object's last modification.
C38_LoadWithoutPrecondition ==
    (bucket.op = "load_data" /\ bucket.pc = "returned") =>
        /\ (bucket.if_unmodified_since = PyNone /\ bucket.key \in Keys) =>
              /\ bucket.state = STATE_OK
              /\ bucket.data = Loaded(bucket.key, Stored(bucket.key, "content"))
        /\ bucket.state = STATE_NOT_EXISTING => bucket.key \notin Keys
        /\ bucket.state = STATE_PRECONDITION_FAILED =>
              /\ bucket.if_unmodified_since # PyNone
              /\ bucket.if_unmodified_since.at < bucket.last_modified

\* receive_message or send_message is called in this step.
MethodCalled == aws_queue'.made = aws_queue.made + 1

\* C39: a call of receive_message or send_message made while queue_url is
\* unset sends no request and leaves queue_url, the client and the state of
\* subscribe_topic as they are; receive_message has returned a list
\* holding one None, send_message None.
C39_UnsetUrlNoCall ==
    [][(MethodCalled /\ aws_queue.queue_url = PyNone) =>
          /\ aws_queue'.calls = aws_queue.calls
          /\ aws_queue'.queue_url = PyNone
          /\ aws_queue'.client = aws_queue.client
          /\ aws_queue'.subscribe = aws_queue.subscribe
          /\ aws_queue'.op.pc = "returned"
          /\ aws_queue'.op.result =
                IF aws_queue'.op.name = "receive_message"
                THEN List(<<PyNone>>) ELSE PyNone]_vars

\* Both methods have been called on a Queue that never subscribed: no
\* request was sent, there is no client.
C39_Witness ==
    /\ aws_queue.queue_url = PyNone
    /\ aws_queue.subscribe = "idle"
    /\ aws_queue.made = 2
    /\ aws_queue.op.name = "send_message"
    /\ aws_queue.op.result = PyNone
    /\ aws_queue.calls = <<>>
    /\ aws_queue.client = 0

====
